---------------------------- MODULE Spec2Model ----------------------------
(***************************************************************************)
(* A model of the fmpsdk client library: the output formatting layer       *)
(* (src/fmpsdk/data_compression.py) and the topic wrappers that call it.   *)
(*                                                                         *)
(* Python values are tagged records: [t |-> "none"], [t |-> "str", s],     *)
(* [t |-> "int", m], [t |-> "float", m, d] (the decimal m / 10^d, the      *)
(* shortest text of the float), [t |-> "bool", b], [t |-> "list", v],      *)
(* [t |-> "tuple", v] and [t |-> "dict", v] (v the items in insertion      *)
(* order, each [k |-> key, v |-> value]).  A text is a sequence of         *)
(* one-character strings, so that joining, splitting and quoting are       *)
(* computed character by character.                                        *)
(***************************************************************************)
EXTENDS Integers, Sequences, FiniteSets, TLC

VARIABLES pc, call, ret, log, files, reply, frame

vars == <<pc, call, ret, log, files, reply, frame>>

(***************************************************************************)
(* Bounds of the model.                                                    *)
(***************************************************************************)
MaxRecords == 2
\* the records of a provider response
MaxResponse == 2
MaxUnits == 2
MaxScale == 2
MaxPrecision == 3

(***************************************************************************)
(* Texts.                                                                  *)
(***************************************************************************)
TAB == "\t"
NL == "\n"
QUOTE == "\""
PIPE == "|"
SP == " "
DOT == "."
MINUS == "-"

Range(s) == {s[i] : i \in 1..Len(s)}

Min(a, b) == IF a <= b THEN a ELSE b

Abs(n) == IF n < 0 THEN -n ELSE n

RECURSIVE Pow10(_)
Pow10(n) == IF n <= 0 THEN 1 ELSE 10 * Pow10(n - 1)

RECURSIVE Concat(_)
Concat(ss) == IF ss = <<>> THEN <<>> ELSE Head(ss) \o Concat(Tail(ss))

\* sep.join(parts)
RECURSIVE Join(_, _)
Join(sep, parts) ==
    IF Len(parts) = 0 THEN <<>>
    ELSE IF Len(parts) = 1 THEN parts[1]
    ELSE parts[1] \o sep \o Join(sep, Tail(parts))

\* text.split(ch) for a one-character separator
RECURSIVE SplitFrom(_, _, _)
SplitFrom(text, ch, cur) ==
    IF text = <<>> THEN <<cur>>
    ELSE IF Head(text) = ch THEN <<cur>> \o SplitFrom(Tail(text), ch, <<>>)
    ELSE SplitFrom(Tail(text), ch, Append(cur, Head(text)))

Split(text, ch) == SplitFrom(text, ch, <<>>)

\* text.rstrip(ch)
RECURSIVE RStrip(_, _)
RStrip(text, ch) ==
    IF text # <<>> /\ text[Len(text)] = ch
    THEN RStrip(SubSeq(text, 1, Len(text) - 1), ch)
    ELSE text

Digit(n) == CASE n = 0 -> "0" [] n = 1 -> "1" [] n = 2 -> "2" [] n = 3 -> "3"
              [] n = 4 -> "4" [] n = 5 -> "5" [] n = 6 -> "6" [] n = 7 -> "7"
              [] n = 8 -> "8" [] n = 9 -> "9"

\* the decimal digits of a natural number
RECURSIVE NatText(_)
NatText(n) == IF n < 10 THEN <<Digit(n)>> ELSE Append(NatText(n \div 10), Digit(n % 10))

\* the k low decimal digits of n, zero padded on the left
RECURSIVE FracText(_, _)
FracText(n, k) == IF k = 0 THEN <<>> ELSE Append(FracText(n \div 10, k - 1), Digit(n % 10))

(***************************************************************************)
(* Python values.                                                          *)
(***************************************************************************)
PyNone == [t |-> "none"]
PyStr(s) == [t |-> "str", s |-> s]
PyInt(m) == [t |-> "int", m |-> m]
PyFloat(m, d) == [t |-> "float", m |-> m, d |-> d]
PyBool(b) == [t |-> "bool", b |-> b]
PyList(v) == [t |-> "list", v |-> v]
PyTuple(v) == [t |-> "tuple", v |-> v]
PyDict(items) == [t |-> "dict", v |-> items]

\* bool(x) for the values the library tests for truth
Truthy(x) ==
    CASE x.t = "none" -> FALSE
      [] x.t \in {"list", "tuple", "dict", "str"} ->
            (IF x.t = "str" THEN x.s ELSE x.v) # <<>>
      [] x.t = "bool" -> x.b
      [] x.t \in {"int", "float"} -> x.m # 0

\* list(d.keys())
DictKeys(d) == [i \in 1..Len(d.v) |-> d.v[i].k]

HasKey(d, key) == \E i \in 1..Len(d.v) : d.v[i].k = key

\* d.get(key, default)
DictGet(d, key, default) ==
    IF HasKey(d, key)
    THEN (CHOOSE it \in Range(d.v) : it.k = key).v
    ELSE default

\* str(x) of an int or of a float written in positional notation
NumberText(x) ==
    LET sign == IF x.m < 0 THEN <<MINUS>> ELSE <<>>
        a == Abs(x.m)
    IN  IF x.t = "int" THEN sign \o NatText(a)
        ELSE sign \o NatText(a \div Pow10(x.d)) \o <<DOT>> \o FracText(a % Pow10(x.d), x.d)

\* str(x)
StrOf(x) ==
    CASE x.t = "str" -> x.s
      [] x.t = "none" -> <<"N", "o", "n", "e">>
      [] x.t = "bool" -> IF x.b THEN <<"T", "r", "u", "e">> ELSE <<"F", "a", "l", "s", "e">>
      [] x.t \in {"int", "float"} -> NumberText(x)


(***************************************************************************)
(* data_compression.py: apply_precision.                                   *)
(***************************************************************************)
DigitValue(c) == CHOOSE n \in 0..9 : Digit(n) = c

\* the natural number a text of digits writes
RECURSIVE TextNat(_)
TextNat(text) ==
    IF text = <<>> THEN 0
    ELSE 10 * TextNat(SubSeq(text, 1, Len(text) - 1)) + DigitValue(text[Len(text)])

\* len(str_value.split('.')[-1]) if '.' in str_value else 0
DecimalPlaces(str_value) ==
    IF DOT \in Range(str_value)
    THEN LET parts == Split(str_value, DOT) IN Len(parts[Len(parts)])
    ELSE 0

\* Decimal(str_value): sign, coefficient and number of fractional digits
DecimalOf(str_value) ==
    LET neg == str_value # <<>> /\ Head(str_value) = MINUS
        body == IF neg THEN Tail(str_value) ELSE str_value
    IN  [neg |-> neg,
         coef |-> TextNat(SelectSeq(body, LAMBDA c : c # DOT)),
         places |-> DecimalPlaces(body)]

\* dec.quantize(Decimal('1.' + '0' * k), rounding=ROUND_HALF_UP), k <= dec.places
Quantize(dec, k) ==
    LET unit == Pow10(dec.places - k)
        q == dec.coef \div unit
        r == dec.coef % unit
    IN  [neg |-> dec.neg,
         coef |-> IF 2 * r >= unit THEN q + 1 ELSE q,
         places |-> k]

\* str(dec) of a Decimal with places > 0
DecimalText(dec) ==
    (IF dec.neg THEN <<MINUS>> ELSE <<>>)
        \o NatText(dec.coef \div Pow10(dec.places))
        \o <<DOT>> \o FracText(dec.coef % Pow10(dec.places), dec.places)

\* int(value): a float is truncated toward zero, True is 1 and False is 0
IntOf(value) ==
    CASE value.t = "int" -> value.m
      [] value.t = "bool" -> (IF value.b THEN 1 ELSE 0)
      [] value.t = "float" ->
            (IF value.m < 0 THEN -1 ELSE 1) * (Abs(value.m) \div Pow10(value.d))

IntText(n) == (IF n < 0 THEN <<MINUS>> ELSE <<>>) \o NatText(Abs(n))

\* isinstance(value, (int, float)): bool is a subclass of int
IsIntOrFloat(value) == value.t \in {"int", "float", "bool"}

round_value_PadToPrecision(value, precision) ==
    IF IsIntOrFloat(value)
    THEN LET str_value == StrOf(value)
             decimal_places == DecimalPlaces(str_value)
             dec == DecimalOf(str_value)
         IN  IF decimal_places > 0 /\ precision > 0
             THEN PyStr(DecimalText(
                     IF precision <= decimal_places THEN Quantize(dec, precision)
                     ELSE [dec EXCEPT !.coef = dec.coef * Pow10(precision - decimal_places),
                                      !.places = precision]))
             ELSE PyStr(IntText(IntOf(value)))
    ELSE value

round_value_StripIntegral(value, precision) ==
    IF IsIntOrFloat(value)
    THEN LET str_value == StrOf(value)
             decimal_places == DecimalPlaces(str_value)
             actual_precision == Min(decimal_places, precision)
             dec == Quantize(DecimalOf(str_value), actual_precision)
         IN  IF actual_precision > 0 /\ dec.coef % Pow10(actual_precision) # 0
             THEN PyStr(DecimalText(dec))
             ELSE PyStr(IntText(IntOf(value)))
    ELSE value

round_value(value, precision) ==
    IF IsIntOrFloat(value)
    THEN LET str_value == StrOf(value)
             decimal_places == DecimalPlaces(str_value)
             actual_precision == Min(decimal_places, precision)
         IN  IF actual_precision > 0
             THEN PyStr(DecimalText(Quantize(DecimalOf(str_value), actual_precision)))
             ELSE PyStr(IntText(IntOf(value)))
    ELSE value

RECURSIVE apply_precision(_, _)
apply_precision(data, precision) ==
    IF precision.t = "none" THEN data
    ELSE IF data.t = "list"
    THEN PyList([i \in 1..Len(data.v) |-> apply_precision(data.v[i], precision)])
    ELSE IF data.t = "dict"
    THEN PyDict([i \in 1..Len(data.v) |->
                    [k |-> data.v[i].k, v |-> round_value(data.v[i].v, precision.m)]])
    ELSE data

(***************************************************************************)
(* data_compression.py: the renderers.                                     *)
(***************************************************************************)
\* The keys of all entries: set(key for entry in result for key in entry.keys())
UnionKeys(result) == UNION {Range(DictKeys(result.v[i])) : i \in 1..Len(result.v)}

\* The orders in which tuple(set(...)) may list a set of keys
SetOrders(S) == {s \in [1..Cardinality(S) -> S] : Range(s) = S}

\* `order` is the iteration order of the key set built when fields is None
compress_json_to_tuples_NoPadding(result, condensed, fields, order) ==
    IF result.t # "none" /\ condensed
    THEN IF Truthy(result)
         THEN LET flds == IF fields.t = "none" THEN order ELSE fields.v
                  present(entry) == SelectSeq(flds, LAMBDA f : HasKey(entry, f))
              IN  PyTuple(<<flds>> \o
                      [i \in 1..Len(result.v) |->
                          [j \in 1..Len(present(result.v[i])) |->
                              StrOf(DictGet(result.v[i], present(result.v[i])[j],
                                            PyStr(<<>>)))]])
         ELSE PyTuple(<< <<>> >>)
    ELSE result

compress_json_to_tuples(result, condensed, fields, order) ==
    IF result.t # "none" /\ condensed
    THEN IF Truthy(result)
         THEN LET flds == IF fields.t = "none" THEN order ELSE fields.v
              IN  PyTuple(<<flds>> \o
                      [i \in 1..Len(result.v) |->
                          [j \in 1..Len(flds) |->
                              StrOf(DictGet(result.v[i], flds[j], PyStr(<<>>)))]])
         ELSE PyTuple(<< <<>> >>)
    ELSE result

\* fieldnames = fields if fields else list(json_data[0].keys())
Fieldnames(json_data, fields) ==
    IF Truthy(fields) THEN fields.v ELSE DictKeys(json_data.v[1])

\* csv.writer with delimiter TAB, the default quotechar and QUOTE_MINIMAL: a
\* field holding the delimiter, the quote character or a line terminator
\* character is quoted, its quote characters doubled; None is written empty.
CsvField(x) ==
    LET text == IF x.t = "none" THEN <<>> ELSE StrOf(x)
        doubled == Concat([i \in 1..Len(text) |->
                      IF text[i] = QUOTE THEN <<QUOTE, QUOTE>> ELSE <<text[i]>>])
    IN  IF Range(text) \cap {TAB, QUOTE, NL} # {}
        THEN <<QUOTE>> \o doubled \o <<QUOTE>>
        ELSE text

\* writer.writerow(cells): a row of one empty field is written quoted
CsvRow(cells) ==
    LET out == [i \in 1..Len(cells) |-> CsvField(cells[i])]
    IN  (IF Len(out) = 1 /\ out[1] = <<>> THEN <<QUOTE, QUOTE>> ELSE Join(<<TAB>>, out))
        \o <<NL>>

\* the cells the TSV renderer hands to the writer, header first
TsvCells(json_data, fields) ==
    LET fieldnames == Fieldnames(json_data, fields)
    IN  <<[j \in 1..Len(fieldnames) |-> PyStr(fieldnames[j])]>> \o
        [i \in 1..Len(json_data.v) |->
            [j \in 1..Len(fieldnames) |->
                DictGet(json_data.v[i], fieldnames[j], PyStr(<<>>))]]

compress_json_to_tsv_KeepNewline(json_data, fields) ==
    IF ~Truthy(json_data) THEN <<>>
    ELSE LET cells == TsvCells(json_data, fields)
         IN  Concat([i \in 1..Len(cells) |-> CsvRow(cells[i])])

compress_json_to_tsv(json_data, fields) ==
    IF ~Truthy(json_data) THEN <<>>
    ELSE LET cells == TsvCells(json_data, fields)
         IN  RStrip(Concat([i \in 1..Len(cells) |-> CsvRow(cells[i])]), NL)

\* "| " + " | ".join(cells) + " |"
MarkdownRow(cells) == <<PIPE, SP>> \o Join(<<SP, PIPE, SP>>, cells) \o <<SP, PIPE>>

\* the cell texts of the Markdown table: header, separator, one row per record
MarkdownCells(json_data, fields) ==
    LET fieldnames == Fieldnames(json_data, fields)
    IN  <<fieldnames, [j \in 1..Len(fieldnames) |-> <<MINUS, MINUS, MINUS>>]>> \o
        [i \in 1..Len(json_data.v) |->
            [j \in 1..Len(fieldnames) |->
                StrOf(DictGet(json_data.v[i], fieldnames[j], PyStr(<<>>)))]]

compress_json_to_markdown(json_data, fields) ==
    IF ~Truthy(json_data) THEN <<>>
    ELSE LET cells == MarkdownCells(json_data, fields)
         IN  Join(<<NL>>, [i \in 1..Len(cells) |-> MarkdownRow(cells[i])])

\* The outcome of a call: a returned value or a raised exception, with the
\* renderers the call invoked.
Return(value, called) == [kind |-> "return", value |-> value, called |-> called]
Raise(exc, called) == [kind |-> "raise", exc |-> exc, called |-> called]

format_output_DefaultJson(data, output, fields) ==
    IF output = "tsv"
    THEN Return(PyStr(compress_json_to_tsv(data, fields)), <<"compress_json_to_tsv">>)
    ELSE IF output = "markdown"
    THEN Return(PyStr(compress_json_to_markdown(data, fields)),
                <<"compress_json_to_markdown">>)
    ELSE Return(data, <<>>)

format_output(data, output, fields) ==
    IF output = "tsv"
    THEN Return(PyStr(compress_json_to_tsv(data, fields)), <<"compress_json_to_tsv">>)
    ELSE IF output = "markdown"
    THEN Return(PyStr(compress_json_to_markdown(data, fields)),
                <<"compress_json_to_markdown">>)
    ELSE IF output = "json"
    THEN Return(data, <<>>)
    ELSE Raise("ValueError", <<>>)

(***************************************************************************)
(* Inputs.                                                                 *)
(***************************************************************************)
KeyA == <<"a">>
KeyB == <<"b">>
KeyC == <<"c">>

\* the sequences of distinct elements of K
KeySeqs(K) == {s \in UNION {[1..n -> K] : n \in 0..Cardinality(K)} :
                  \A i, j \in 1..Len(s) : i # j => s[i] # s[j]}

\* the dicts with keys among K, in any insertion order, and values in V
Records(K, V) ==
    UNION {{PyDict([i \in 1..Len(ks) |-> [k |-> ks[i], v |-> vs[i]]]) :
               vs \in [1..Len(ks) -> V]} : ks \in KeySeqs(K)}

SeqsUpTo(S, n) == UNION {[1..m -> S] : m \in 0..n}

\* a Record Collection, or None
Collections(K, V) == {PyNone} \cup {PyList(rs) : rs \in SeqsUpTo(Records(K, V), MaxRecords)}

PlainValues == {PyStr(<<"x">>), PyNone}

FieldChoices == {PyNone, PyTuple(<<>>), PyTuple(<<KeyA>>), PyTuple(<<KeyB, KeyA>>),
                 PyTuple(<<KeyA, KeyC>>)}

Outputs == {"json", "tsv", "markdown", "csv"}

Idle == [kind |-> "none"]

\* the file system of a check that writes no file
NoFiles == <<>>

(***************************************************************************)
(* SpecFormat: format_output and compress_json_to_tuples on every          *)
(* collection, column selection and output selector of the bounded sets.   *)
(***************************************************************************)
InitFormat ==
    /\ pc = "start"
    /\ call \in [data : Collections({KeyA, KeyB}, PlainValues),
                 fields : FieldChoices,
                 output : Outputs]
    /\ ret = Idle
    /\ log = <<>>
    /\ files = NoFiles
    /\ reply = Idle
    /\ frame = Idle

FormatOutput ==
    /\ pc = "start"
    /\ pc' = "format_output"
    /\ ret' = format_output(call.data, call.output, call.fields)
    /\ log' = ret'.called
    /\ UNCHANGED <<call, files, reply, frame>>

CompressTuples ==
    /\ pc = "start"
    /\ \E condensed \in BOOLEAN :
       \E order \in (IF Truthy(call.data) THEN SetOrders(UnionKeys(call.data)) ELSE {<<>>}) :
          /\ pc' = (IF condensed THEN "condensed" ELSE "uncondensed")
          /\ ret' = Return(compress_json_to_tuples(call.data, condensed, call.fields,
                                                      order), <<>>)
    /\ log' = <<>>
    /\ UNCHANGED <<call, files, reply, frame>>

NextFormat == FormatOutput \/ CompressTuples

SpecFormat == InitFormat /\ [][NextFormat]_vars

(***************************************************************************)
(* SpecTsv: the TSV renderer on collections whose names and values hold    *)
(* the characters the csv writer gives a meaning: the delimiter, the line  *)
(* terminator and the quote character.                                     *)
(***************************************************************************)
TsvValues == {PyStr(<<>>), PyStr(<<"x">>), PyStr(<<TAB>>), PyStr(<<NL>>), PyNone}

InitTsv ==
    /\ pc = "start"
    /\ call \in [data : Collections({KeyA, KeyB}, TsvValues) \ {PyNone},
                 fields : {PyNone}]
    /\ ret = Idle
    /\ log = <<>>
    /\ files = NoFiles
    /\ reply = Idle
    /\ frame = Idle

RenderTsv ==
    /\ pc = "start"
    /\ pc' = "tsv"
    /\ ret' = Return(PyStr(compress_json_to_tsv(call.data, call.fields)), <<>>)
    /\ UNCHANGED <<call, log, files, reply, frame>>

NextTsv == RenderTsv

SpecTsv == InitTsv /\ [][NextTsv]_vars

(***************************************************************************)
(* SpecMarkdown: the Markdown renderer on collections whose values hold    *)
(* the pipe and the line break.                                            *)
(***************************************************************************)
MarkdownValues == {PyStr(<<>>), PyStr(<<"x">>), PyStr(<<PIPE>>), PyStr(<<NL>>), PyNone}

InitMarkdown ==
    /\ pc = "start"
    /\ call \in [data : Collections({KeyA, KeyB}, MarkdownValues) \ {PyNone},
                 fields : {PyNone}]
    /\ ret = Idle
    /\ log = <<>>
    /\ files = NoFiles
    /\ reply = Idle
    /\ frame = Idle

RenderMarkdown ==
    /\ pc = "start"
    /\ pc' = "markdown"
    /\ ret' = Return(PyStr(compress_json_to_markdown(call.data, call.fields)), <<>>)
    /\ UNCHANGED <<call, log, files, reply, frame>>

NextMarkdown == RenderMarkdown

SpecMarkdown == InitMarkdown /\ [][NextMarkdown]_vars

(***************************************************************************)
(* SpecPrecision: apply_precision on records holding one number of up to   *)
(* MaxScale decimal places, alone or beside a non-numeric field.           *)
(***************************************************************************)
\* the ints, and the floats as str() writes them: at least one fractional
\* digit, and no trailing zero after the first
Numbers ==
    {PyInt(m) : m \in -MaxUnits..MaxUnits} \cup
    UNION {{PyFloat(m, d) : m \in {n \in (1 - (MaxUnits + 1) * Pow10(d))..((MaxUnits + 1) * Pow10(d) - 1) :
                                       d = 1 \/ n % 10 # 0}} : d \in 1..MaxScale}

NonNumbers == {PyStr(<<"x">>), PyStr(<<"1", DOT, "5">>), PyNone, PyBool(TRUE), PyBool(FALSE),
               PyList(<<PyFloat(15, 1)>>)}

PrecisionData ==
    {PyDict(<<[k |-> KeyA, v |-> x]>>) : x \in Numbers \cup NonNumbers} \cup
    {PyList(<<PyDict(<<[k |-> KeyA, v |-> x], [k |-> KeyB, v |-> y]>>)>>) :
        x \in Numbers, y \in NonNumbers}

Precisions == {PyNone} \cup {PyInt(n) : n \in 0..MaxPrecision}

InitPrecision ==
    /\ pc = "start"
    /\ call \in [data : PrecisionData, precision : Precisions]
    /\ ret = Idle
    /\ log = <<>>
    /\ files = NoFiles
    /\ reply = Idle
    /\ frame = Idle

ApplyPrecision ==
    /\ pc = "start"
    /\ pc' = "apply_precision"
    /\ ret' = Return(apply_precision(call.data, call.precision), <<>>)
    /\ UNCHANGED <<call, log, files, reply, frame>>

NextPrecision == ApplyPrecision

SpecPrecision == InitPrecision /\ [][NextPrecision]_vars

(***************************************************************************)
(* The topic wrappers.  A wrapper call is one action: it takes the call's  *)
(* arguments and the provider's response, and yields the call's outcome,   *)
(* the requests and file operations it performed, in order, and the files  *)
(* it leaves.                                                              *)
(***************************************************************************)
API_KEY == "FMP_API_KEY"
BASE_URL_v3 == "BASE_URL_v3/"

EmptyMap == [x \in {} |-> x]

\* d[key] = value
With(d, key, value) == (key :> value) @@ d

\* requests.get(url, params=params): the request as the provider sees it
Get(url, params) == [op |-> "GET", url |-> url, params |-> params]

\* open(filename, "wb") creates or truncates the file; write stores the body
Open(filename) == [op |-> "open", file |-> filename]
Write(filename, content) == [op |-> "write", file |-> filename, content |-> content]

\* What a wrapper did: its outcome, its requests and file operations, its files
Did(outcome, events, fs) == [ret |-> outcome, log |-> events, files |-> fs]

\* __return_json_v3(path, query_vars): one GET of BASE_URL_v3 + path; the
\* decoded body, or None when the request or the decoding fails
return_json_v3(path, query_vars, response) ==
    [event |-> Get(<<BASE_URL_v3>> \o path, query_vars),
     result |-> IF response.kind = "json" THEN response.json ELSE PyNone]

BASE_URL_v4 == "BASE_URL_v4/"

\* __return_json_v4(path, query_vars): as __return_json_v3, on the v4 base URL
return_json_v4(path, query_vars, response) ==
    [event |-> Get(<<BASE_URL_v4>> \o path, query_vars),
     result |-> IF response.kind = "json" THEN response.json ELSE PyNone]

\* logging.error(msg)
LogError(msg) == [op |-> "logging.error", msg |-> msg]

\* __validate_period(period)
validate_period(period) == period \in {"annual", "quarter"}

company_profile(symbol, output, response, fs) ==
    LET path == <<"profile/", symbol>>
        query_vars == With(EmptyMap, "apikey", API_KEY)
        fetched == return_json_v3(path, query_vars, response)
    IN  Did(format_output(fetched.result, output, PyNone), <<fetched.event>>, fs)

\* a < b for ints and floats
LessThan(a, b) ==
    LET da == IF a.t = "float" THEN a.d ELSE 0
        db == IF b.t = "float" THEN b.d ELSE 0
    IN  a.m * Pow10(db) < b.m * Pow10(da)

KeyEpsEstimated == <<"epsEstimated">>
KeyRevenueEstimated == <<"revenueEstimated">>
KeyDate == <<"date">>

EarningFields ==
    PyTuple(<<KeyDate, <<"symbol">>, <<"eps">>, KeyEpsEstimated, <<"revenue">>,
              KeyRevenueEstimated, <<"fiscalDateEnding">>>>)

DefaultRevenueMinimum == 1000000000

\* earning_calendar asking the provider again after an absent result
earning_calendar_RetriesAbsent(from_date, to_date, estimate_required, revenue_minimum, output, response, fs) ==
    LET fetched == return_json_v3(<<"earning_calendar">>, With(EmptyMap, "apikey", API_KEY),
                                  response)
        result == fetched.result
    IN  IF result.t = "none"
        THEN Did(Return(PyNone, <<>>), <<fetched.event, fetched.event>>, fs)
        ELSE Did(format_output(result, output, EarningFields), <<fetched.event>>, fs)

\* earning_calendar keeping only the records above the floor
earning_calendar_StrictFloor(from_date, to_date, estimate_required, revenue_minimum, output, response, fs) ==
    LET fetched == return_json_v3(<<"earning_calendar">>, With(EmptyMap, "apikey", API_KEY),
                                  response)
        result == fetched.result
        estimated == IF estimate_required
                     THEN SelectSeq(result.v, LAMBDA entry :
                              /\ DictGet(entry, KeyEpsEstimated, PyNone).t # "none"
                              /\ DictGet(entry, KeyRevenueEstimated, PyNone).t # "none")
                     ELSE result.v
        revenue(entry) == DictGet(entry, KeyRevenueEstimated, PyInt(0))
        filtered == SelectSeq(estimated, LAMBDA entry :
                        revenue(entry).t # "none" /\ LessThan(revenue_minimum, revenue(entry)))
    IN  IF result.t = "none" THEN Did(Return(PyNone, <<>>), <<fetched.event>>, fs)
        ELSE Did(format_output(PyList(filtered), output, EarningFields),
                 <<fetched.event>>, fs)

earning_calendar(from_date, to_date, estimate_required, revenue_minimum, output, response, fs) ==
    LET q0 == With(EmptyMap, "apikey", API_KEY)
        q1 == IF Truthy(from_date) THEN With(q0, "from", from_date.s) ELSE q0
        query_vars == IF Truthy(to_date) THEN With(q1, "to", to_date.s) ELSE q1
        fetched == return_json_v3(<<"earning_calendar">>, query_vars, response)
        result == fetched.result
        estimated == IF estimate_required
                     THEN SelectSeq(result.v, LAMBDA entry :
                              /\ DictGet(entry, KeyEpsEstimated, PyNone).t # "none"
                              /\ DictGet(entry, KeyRevenueEstimated, PyNone).t # "none")
                     ELSE result.v
        revenue(entry) == DictGet(entry, KeyRevenueEstimated, PyInt(0))
        \* None >= revenue_minimum raises TypeError
        comparable == \A i \in 1..Len(estimated) : revenue(estimated[i]).t # "none"
        filtered == SelectSeq(estimated, LAMBDA entry :
                        ~LessThan(revenue(entry), revenue_minimum))
    IN  IF result.t = "none" THEN Did(Return(PyNone, <<>>), <<fetched.event>>, fs)
        ELSE IF ~comparable THEN Did(Raise("TypeError", <<>>), <<fetched.event>>, fs)
        ELSE Did(format_output(PyList(filtered), output, EarningFields),
                 <<fetched.event>>, fs)

KeyImpact == <<"impact">>
KeyCountry == <<"country">>
KeyCurrency == <<"currency">>

EconomicFields ==
    PyTuple(<<KeyDate, <<"event">>, KeyCountry, <<"actual">>, <<"previous">>, <<"change">>,
              <<"changePercentage">>, <<"estimate">>, KeyImpact>>)

\* the default of impact_filter
DefaultImpactFilter == PyList(<<PyStr(<<"High">>)>>)

\* [event for event in result if event.get(key) in filter], the filter a list
\* or a single string wrapped into one; a falsy filter leaves result alone
Filtered(result, key, filter) ==
    IF Truthy(filter)
    THEN LET allowed == IF filter.t = "str" THEN <<filter>> ELSE filter.v
         IN  SelectSeq(result, LAMBDA event : DictGet(event, key, PyNone) \in Range(allowed))
    ELSE result

\* economic_calendar filtering on impact whenever impact_filter is not None
economic_calendar_EmptyImpactFiltersAll(from_date, to_date, output, impact_filter, country_filter, currency_filter, response, fs) ==
    LET fetched == return_json_v3(<<"economic_calendar">>, With(EmptyMap, "apikey", API_KEY),
                                  response)
        result == fetched.result
        by_impact == IF impact_filter.t = "none" THEN result.v
                     ELSE IF impact_filter.t = "str"
                     THEN Filtered(result.v, KeyImpact, impact_filter)
                     ELSE SelectSeq(result.v, LAMBDA event :
                              DictGet(event, KeyImpact, PyNone) \in Range(impact_filter.v))
        by_country == Filtered(by_impact, KeyCountry, country_filter)
        by_currency == Filtered(by_country, KeyCurrency, currency_filter)
    IN  IF result.t = "none" THEN Did(Return(PyNone, <<>>), <<fetched.event>>, fs)
        ELSE Did(format_output(PyList(by_currency), output, EconomicFields),
                 <<fetched.event>>, fs)

economic_calendar(from_date, to_date, output, impact_filter, country_filter, currency_filter, response, fs) ==
    LET q0 == With(EmptyMap, "apikey", API_KEY)
        q1 == IF Truthy(from_date) THEN With(q0, "from", from_date.s) ELSE q0
        query_vars == IF Truthy(to_date) THEN With(q1, "to", to_date.s) ELSE q1
        fetched == return_json_v3(<<"economic_calendar">>, query_vars, response)
        result == fetched.result
        by_impact == Filtered(result.v, KeyImpact, impact_filter)
        by_country == Filtered(by_impact, KeyCountry, country_filter)
        by_currency == Filtered(by_country, KeyCurrency, currency_filter)
    IN  IF result.t = "none" THEN Did(Return(PyNone, <<>>), <<fetched.event>>, fs)
        ELSE Did(format_output(PyList(by_currency), output, EconomicFields),
                 <<fetched.event>>, fs)

\* sum(i is not None for i in values)
CountNotNone(values) == Cardinality({i \in 1..Len(values) : values[i].t # "none"})

CombinedMessage ==
    "Do not combine symbol, reporting_cik or company_cik parameters. Only provide one."

\* insider_trading rejecting only a call without any identifying filter
insider_trading_AllowCombined(symbol, reporting_cik, company_cik, limit, response, fs) ==
    LET query_vars == With(With(EmptyMap, "apikey", API_KEY), "limit", limit)
        fetched == return_json_v4(<<"insider-trading/">>, query_vars, response)
    IN  IF CountNotNone(<<reporting_cik, company_cik, symbol>>) = 0
        THEN Did(Raise("ValueError", <<>>), <<LogError(CombinedMessage)>>, fs)
        ELSE Did(Return(fetched.result, <<>>), <<fetched.event>>, fs)

insider_trading(symbol, reporting_cik, company_cik, limit, response, fs) ==
    LET q0 == With(With(EmptyMap, "apikey", API_KEY), "limit", limit)
        q1 == IF Truthy(reporting_cik) THEN With(q0, "reportingCik", reporting_cik.m) ELSE q0
        q2 == IF Truthy(company_cik) THEN With(q1, "companyCik", company_cik.m) ELSE q1
        query_vars == IF Truthy(symbol) THEN With(q2, "symbol", symbol.s) ELSE q2
        fetched == return_json_v4(<<"insider-trading/">>, query_vars, response)
    IN  IF CountNotNone(<<reporting_cik, company_cik, symbol>>) # 1
        THEN Did(Raise("ValueError", <<>>), <<LogError(CombinedMessage)>>, fs)
        ELSE Did(Return(fetched.result, <<>>), <<fetched.event>>, fs)

\* ",".join(symbol) when symbol is a list, symbol itself otherwise
JoinedSymbols(symbol) ==
    IF symbol.t = "list"
    THEN Join(<<",">>, [i \in 1..Len(symbol.v) |-> symbol.v[i].s])
    ELSE symbol.s

\* the orders tuple(set(...)) may give the keys of the collection compacted
KeyOrders(data) ==
    IF data.t = "list" /\ data.v # <<>> THEN SetOrders(UnionKeys(data)) ELSE {<<>>}

\* quote asking for the first symbol of a list only
quote_FirstSymbol(symbol, condensed, order, response, fs) ==
    LET name == IF symbol.t = "list"
                THEN (IF symbol.v = <<>> THEN <<>> ELSE symbol.v[1].s)
                ELSE symbol.s
        fetched == return_json_v3(<<"quote/">> \o name, With(EmptyMap, "apikey", API_KEY),
                                  response)
    IN  Did(Return(compress_json_to_tuples(fetched.result, condensed, PyNone, order), <<>>),
            <<fetched.event>>, fs)

quote(symbol, condensed, order, response, fs) ==
    LET path == <<"quote/">> \o JoinedSymbols(symbol)
        query_vars == With(EmptyMap, "apikey", API_KEY)
        fetched == return_json_v3(path, query_vars, response)
    IN  Did(Return(compress_json_to_tuples(fetched.result, condensed, PyNone, order), <<>>),
            <<fetched.event>>, fs)

multiple_company_prices(symbols, condensed, order, response, fs) ==
    LET path == <<"quote/">> \o JoinedSymbols(symbols)
        query_vars == With(EmptyMap, "apikey", API_KEY)
        fetched == return_json_v3(path, query_vars, response)
    IN  Did(Return(compress_json_to_tuples(fetched.result, condensed, PyNone, order), <<>>),
            <<fetched.event>>, fs)

KeyHistoricalStockList == <<"historicalStockList">>
KeyHistorical == <<"historical">>

\* result.get("historicalStockList", result.get("historical", None)) of a
\* truthy result
historical_data(result) ==
    IF Truthy(result)
    THEN DictGet(result, KeyHistoricalStockList, DictGet(result, KeyHistorical, PyNone))
    ELSE PyNone

historical_price_full(symbol, from_date, to_date, condensed, order, response, fs) ==
    LET path == <<"historical-price-full/">> \o JoinedSymbols(symbol)
        q0 == With(EmptyMap, "apikey", API_KEY)
        q1 == IF Truthy(from_date) THEN With(q0, "from", from_date.s) ELSE q0
        query_vars == IF Truthy(to_date) THEN With(q1, "to", to_date.s) ELSE q1
        fetched == return_json_v3(path, query_vars, response)
        series == historical_data(fetched.result)
    IN  IF Truthy(fetched.result) /\ Truthy(series)
        THEN Did(Return(compress_json_to_tuples(series, condensed, PyNone, order), <<>>),
                 <<fetched.event>>, fs)
        ELSE Did(Return(PyNone, <<>>), <<fetched.event>>, fs)

commodity_price(symbol, from_date, to_date, condensed, order, response, fs) ==
    historical_price_full(symbol, from_date, to_date, condensed, order, response, fs)

forex_historical(symbol, from_date, to_date, response, fs) ==
    LET path == <<"historical-price-full/">> \o symbol.s
        query_vars == With(With(With(EmptyMap, "apikey", API_KEY), "from", from_date),
                           "to", to_date)
        fetched == return_json_v3(path, query_vars, response)
    IN  Did(Return(fetched.result, <<>>), <<fetched.event>>, fs)

\* a download branch that opens the file before it asks for the body
Download_OpensBeforeGet(path, query_vars, filename, response, fs) ==
    LET request == Get(<<BASE_URL_v3>> \o path, With(query_vars, "datatype", "csv"))
    IN  IF fs[filename] = "unwritable"
        THEN Did(Raise("OSError", <<>>), <<Open(filename)>>, fs)
        ELSE IF response.kind = "transport_error"
        THEN Did(Raise("RequestException", <<>>), <<Open(filename), request>>,
                 With(fs, filename, ""))
        ELSE Did(Return(PyNone, <<>>),
                 <<Open(filename), request, Write(filename, response.content)>>,
                 With(fs, filename, response.content))

\* the download branch of the statement, constituent and SEC RSS functions:
\*     query_vars["datatype"] = "csv"
\*     response = requests.get(f"{BASE_URL_v3}{path}", params=query_vars)
\*     open(filename, "wb").write(response.content)
\*     return None
\* requests.get raises on a transport error and open raises on a file that
\* cannot be written; neither is caught
Download(path, query_vars, filename, response, fs) ==
    LET request == Get(<<BASE_URL_v3>> \o path, With(query_vars, "datatype", "csv"))
    IN  IF response.kind = "transport_error"
        THEN Did(Raise("RequestException", <<>>), <<request>>, fs)
        ELSE IF fs[filename] = "unwritable"
        THEN Did(Raise("OSError", <<>>), <<request, Open(filename)>>, fs)
        ELSE Did(Return(PyNone, <<>>),
                 <<request, Open(filename), Write(filename, response.content)>>,
                 With(fs, filename, response.content))

\* income_statement whose download branch lacks its return
income_statement_DownloadFallsThrough(symbol, period, limit, download, filename, output, response, fs) ==
    LET path == <<"income-statement/", symbol>>
        query_vars == With(With(With(EmptyMap, "apikey", API_KEY), "limit", limit),
                           "period", period)
        saved == Download(path, query_vars, filename, response, fs)
        fetched == return_json_v3(path, query_vars, response)
    IN  IF download /\ saved.ret.kind = "return"
        THEN Did(format_output(fetched.result, output, PyNone),
                 Append(saved.log, fetched.event), saved.files)
        ELSE IF download THEN saved
        ELSE Did(format_output(fetched.result, output, PyNone), <<fetched.event>>, fs)

income_statement(symbol, period, limit, download, filename, output, response, fs) ==
    LET path == <<"income-statement/", symbol>>
        query_vars == With(With(With(EmptyMap, "apikey", API_KEY), "limit", limit),
                           "period", period)
    IN  IF ~validate_period(period) THEN Did(Raise("ValueError", <<>>), <<>>, fs)
        ELSE IF download
        THEN Download(path, query_vars, filename, response, fs)
        ELSE LET fetched == return_json_v3(path, query_vars, response)
             IN  Did(format_output(fetched.result, output, PyNone), <<fetched.event>>, fs)

sp500_constituent(download, filename, condensed, order, response, fs) ==
    LET path == <<"sp500_constituent">>
        query_vars == With(EmptyMap, "apikey", API_KEY)
    IN  IF download
        THEN Download(path, query_vars, filename, response, fs)
        ELSE LET fetched == return_json_v3(path, query_vars, response)
             IN  Did(Return(compress_json_to_tuples(fetched.result, condensed, PyNone, order),
                            <<>>),
                     <<fetched.event>>, fs)

sec_rss_feeds(limit, download, filename, condensed, order, response, fs) ==
    LET path == <<"rss_feed">>
        query_vars == With(EmptyMap, "apikey", API_KEY)
    IN  IF download
        THEN Download(path, query_vars, filename, response, fs)
        ELSE LET fetched == return_json_v3(path, With(query_vars, "limit", limit), response)
             IN  Did(Return(compress_json_to_tuples(fetched.result, condensed, PyNone, order),
                            <<>>),
                     <<fetched.event>>, fs)

\* The categorical validators of the request layer: each returns the value
\* to send, or raises ValueError (ok = FALSE) on a value outside its set.
Valid(value) == [ok |-> TRUE, value |-> value]
Invalid == [ok |-> FALSE]

TimeDeltas == {"1min", "5min", "15min", "30min", "1hour", "4hour", "1day"}

\* __validate_time_delta(value): the legacy alias "daily" is remapped
validate_time_delta(value) ==
    IF value \in TimeDeltas THEN Valid(value)
    ELSE IF value = "daily" THEN Valid("1day")
    ELSE Invalid

\* __validate_technical_indicators_time_delta(value)
validate_technical_indicators_time_delta(value) ==
    IF value \in TimeDeltas THEN Valid(value)
    ELSE IF value = "daily" THEN Valid("1day")
    ELSE Invalid

StatisticsTypes ==
    {"sma", "ema", "wma", "dema", "tema", "williams", "rsi", "adx", "standardDeviation"}

\* __validate_statistics_type(value)
validate_statistics_type(value) ==
    IF value \in StatisticsTypes THEN Valid(value) ELSE Invalid

\* names of the provider's reference lists of sectors and of industries
Sectors == {"Technology", "Energy"}
Industries == {"Software", "Banks"}

\* __validate_sector(value)
validate_sector(value) == IF value \in Sectors THEN Valid(value) ELSE Invalid

\* __validate_industry(value)
validate_industry(value) == IF value \in Industries THEN Valid(value) ELSE Invalid

\* technical_indicators validating its arguments after the request
technical_indicators_ValidatesAfterFetch(symbol, period, statistics_type, time_delta, condensed, order, response, fs) ==
    LET delta == validate_technical_indicators_time_delta(time_delta)
        type == validate_statistics_type(statistics_type)
        path == <<"technical_indicator/", time_delta, "/", symbol>>
        query_vars == With(With(With(EmptyMap, "apikey", API_KEY), "period", period),
                           "type", statistics_type)
        fetched == return_json_v3(path, query_vars, response)
    IN  IF ~delta.ok \/ ~type.ok
        THEN Did(Raise("ValueError", <<>>), <<fetched.event>>, fs)
        ELSE Did(Return(compress_json_to_tuples(fetched.result, condensed, PyNone, order),
                        <<>>),
                 <<fetched.event>>, fs)

technical_indicators(symbol, period, statistics_type, time_delta, condensed, order, response, fs) ==
    LET delta == validate_technical_indicators_time_delta(time_delta)
        type == validate_statistics_type(statistics_type)
    IN  IF ~delta.ok THEN Did(Raise("ValueError", <<>>), <<>>, fs)
        ELSE IF ~type.ok THEN Did(Raise("ValueError", <<>>), <<>>, fs)
        ELSE LET path == <<"technical_indicator/", delta.value, "/", symbol>>
                 query_vars == With(With(With(EmptyMap, "apikey", API_KEY),
                                         "period", period),
                                    "type", type.value)
                 fetched == return_json_v3(path, query_vars, response)
             IN  Did(Return(compress_json_to_tuples(fetched.result, condensed, PyNone,
                                                    order), <<>>),
                     <<fetched.event>>, fs)

DEFAULT_LINE_PARAMETER == PyStr(<<"line">>)

historical_chart(symbol, timeframe, from_date, to_date, time_series, time_delta, condensed, order, response, fs) ==
    LET chosen == IF time_delta.t # "none" THEN time_delta.s[1] ELSE timeframe
        delta == validate_time_delta(chosen)
    IN  IF ~delta.ok THEN Did(Raise("ValueError", <<>>), <<>>, fs)
        ELSE LET path == <<"historical-chart/", delta.value, "/", symbol>>
                 q0 == With(EmptyMap, "apikey", API_KEY)
                 q1 == IF Truthy(time_series) THEN With(q0, "timeseries", time_series.s)
                       ELSE q0
                 q2 == IF Truthy(from_date) THEN With(q1, "from", from_date.s) ELSE q1
                 query_vars == IF Truthy(to_date) THEN With(q2, "to", to_date.s) ELSE q2
                 fetched == return_json_v3(path, query_vars, response)
             IN  Did(Return(compress_json_to_tuples(fetched.result, condensed, PyNone,
                                                    order), <<>>),
                     <<fetched.event>>, fs)

\* the threshold arguments of stock_screener and their query keys, in the
\* order the function looks at them
NumericFilters ==
    <<[arg |-> "market_cap_more_than", key |-> "marketCapMoreThan"],
      [arg |-> "market_cap_lower_than", key |-> "marketCapLowerThan"],
      [arg |-> "beta_more_than", key |-> "betaMoreThan"],
      [arg |-> "beta_lower_than", key |-> "betaLowerThan"],
      [arg |-> "volume_more_than", key |-> "volumeMoreThan"],
      [arg |-> "volume_lower_than", key |-> "volumeLowerThan"],
      [arg |-> "dividend_more_than", key |-> "dividendMoreThan"],
      [arg |-> "dividend_lower_than", key |-> "dividendLowerThan"],
      [arg |-> "price_more_than", key |-> "priceMoreThan"],
      [arg |-> "price_lower_than", key |-> "priceLowerThan"]>>

\* the flag arguments of stock_screener and their query keys
BooleanFilters ==
    <<[arg |-> "is_etf", key |-> "isEtf"],
      [arg |-> "is_fund", key |-> "isFund"],
      [arg |-> "is_actively_trading", key |-> "isActivelyTrading"]>>

\* the number or truth value a query carries
Carried(x) == IF x.t = "bool" THEN x.b ELSE NumberText(x)

\* if x: query_vars[key] = x, for the first n threshold arguments
RECURSIVE WithNumericFilters(_, _, _)
WithNumericFilters(query_vars, args, n) ==
    IF n = 0 THEN query_vars
    ELSE LET before == WithNumericFilters(query_vars, args, n - 1)
             x == args[NumericFilters[n].arg]
         IN  IF Truthy(x) THEN With(before, NumericFilters[n].key, Carried(x)) ELSE before

\* if x is not None: query_vars[key] = x, for the first n flag arguments
RECURSIVE WithBooleanFilters(_, _, _)
WithBooleanFilters(query_vars, args, n) ==
    IF n = 0 THEN query_vars
    ELSE LET before == WithBooleanFilters(query_vars, args, n - 1)
             x == args[BooleanFilters[n].arg]
         IN  IF x.t # "none" THEN With(before, BooleanFilters[n].key, Carried(x))
             ELSE before

stock_screener(args, sector, industry, country, exchange, limit, response, fs) ==
    LET q0 == With(With(EmptyMap, "apikey", API_KEY), "limit", limit)
        q1 == WithNumericFilters(q0, args, Len(NumericFilters))
        q2 == WithBooleanFilters(q1, args, Len(BooleanFilters))
        checked_sector == validate_sector(sector.s[1])
        checked_industry == validate_industry(industry.s[1])
    IN  IF Truthy(sector) /\ ~checked_sector.ok
        THEN Did(Raise("ValueError", <<>>), <<>>, fs)
        ELSE IF Truthy(industry) /\ ~checked_industry.ok
        THEN Did(Raise("ValueError", <<>>), <<>>, fs)
        ELSE LET q3 == IF Truthy(sector) THEN With(q2, "sector", checked_sector.value)
                       ELSE q2
                 q4 == IF Truthy(industry)
                       THEN With(q3, "industry", checked_industry.value) ELSE q3
                 q5 == IF Truthy(country) THEN With(q4, "country", country.s) ELSE q4
                 query_vars == IF Truthy(exchange)
                               THEN With(q5, "exchange", JoinedSymbols(exchange))
                               ELSE q5
                 fetched == return_json_v3(<<"stock-screener">>, query_vars, response)
             IN  Did(Return(fetched.result, <<>>), <<fetched.event>>, fs)

(***************************************************************************)
(* Spec: one call of a topic wrapper, with every response of the provider. *)
(***************************************************************************)
\* what the request layer may come back with: a decoded collection or a failure
JsonResponses(records) ==
    {[kind |-> "failed"]} \cup
    {[kind |-> "json", json |-> PyList(rs)] : rs \in SeqsUpTo(records, MaxResponse)}

\* what requests.get may come back with: a response of any status, or an error
HttpResponses ==
    {[kind |-> "transport_error"]} \cup
    {[kind |-> "response", status |-> st, content |-> c] :
        st \in {200, 401}, c \in {"csv body", "error body"}}

ProfileRecords == {PyDict(<<[k |-> <<"symbol">>, v |-> PyStr(<<"AAPL">>)]>>)}

EarningRecords ==
    {PyDict(<<[k |-> KeyDate, v |-> PyStr(<<"2023-01-01">>)]>> \o eps \o rev) :
        eps \in {<<>>} \cup {<<[k |-> KeyEpsEstimated, v |-> x]>> :
                                x \in {PyNone, PyFloat(12, 1)}},
        rev \in {<<>>} \cup {<<[k |-> KeyRevenueEstimated, v |-> x]>> :
                                x \in {PyNone, PyInt(500000000), PyInt(DefaultRevenueMinimum),
                                      PyInt(1500000000)}}}

\* events with or without an impact, of two countries and two currencies
EconomicRecords ==
    {PyDict(imp \o <<[k |-> KeyCountry, v |-> PyStr(<<country>>)],
                     [k |-> KeyCurrency, v |-> PyStr(<<currency>>)]>>) :
        imp \in {<<>>} \cup {<<[k |-> KeyImpact, v |-> PyStr(<<x>>)]>> : x \in {"High", "Low"}},
        country \in {"US", "EU"}, currency \in {"USD", "EUR"}}

\* daily prices, the second without a close
PriceRecords ==
    {PyDict(<<[k |-> KeyDate, v |-> PyStr(<<"2023-01-03">>)],
              [k |-> <<"close">>, v |-> PyFloat(1255, 1)]>>),
     PyDict(<<[k |-> KeyDate, v |-> PyStr(<<"2023-01-04">>)]>>)}

\* the wrapper objects of the historical price endpoint: either key, both or
\* neither, over every series up to MaxResponse records; or a failure
HistoricalResponses ==
    {[kind |-> "failed"]} \cup
    {[kind |-> "json", json |-> PyDict(a \o b)] :
        a \in {<<>>} \cup {<<[k |-> KeyHistoricalStockList, v |-> PyList(s)]>> :
                              s \in SeqsUpTo(PriceRecords, MaxResponse)},
        b \in {<<>>} \cup {<<[k |-> KeyHistorical, v |-> PyList(s)]>> :
                              s \in SeqsUpTo(PriceRecords, MaxResponse)}}

\* one symbol, several symbols in one string, and lists of symbols
SymbolArgs ==
    {PyStr(<<>>), PyStr(<<"AAPL">>), PyStr(<<"AAPL", ",", "MSFT">>), PyList(<<>>),
     PyList(<<PyStr(<<"AAPL">>)>>), PyList(<<PyStr(<<"AAPL">>), PyStr(<<"MSFT">>)>>)}

\* stock_screener's threshold and flag arguments: none given, or one given
NoFilters ==
    [arg \in {NumericFilters[n].arg : n \in 1..Len(NumericFilters)} \cup
              {BooleanFilters[n].arg : n \in 1..Len(BooleanFilters)} |-> PyNone]

ScreenerArgs ==
    {NoFilters}
    \cup {[NoFilters EXCEPT ![NumericFilters[n].arg] = x] :
            n \in 1..Len(NumericFilters), x \in {PyInt(0), PyInt(5)}}
    \cup {[NoFilters EXCEPT ![BooleanFilters[n].arg] = PyBool(b)] :
            n \in 1..Len(BooleanFilters), b \in BOOLEAN}

Calls ==
    [fn : {"company_profile"}, symbol : {"AAPL"}, output : Outputs]
    \cup
    [fn : {"quote", "multiple_company_prices"}, symbol : SymbolArgs, condensed : BOOLEAN]
    \cup
    [fn : {"sp500_constituent"}, download : BOOLEAN, filename : {"sp500_constituents.csv"},
     condensed : BOOLEAN]
    \cup
    [fn : {"sec_rss_feeds"}, limit : {10}, download : BOOLEAN,
     filename : {"sec_rss_feeds.csv"}, condensed : BOOLEAN]
    \cup
    [fn : {"historical_price_full"}, symbol : SymbolArgs,
     from_date : {PyNone, PyStr(<<"2023-01-01">>)}, to_date : {PyNone},
     condensed : BOOLEAN]
    \cup
    [fn : {"commodity_price"}, symbol : {PyStr(<<"ZGUSD">>)},
     from_date : {PyNone, PyStr(<<"2023-01-01">>)}, to_date : {PyNone},
     condensed : BOOLEAN]
    \cup
    [fn : {"forex_historical"}, symbol : {PyStr(<<"EURUSD">>)},
     from_date : {PyStr(<<"2023-01-01">>)}, to_date : {PyStr(<<"2023-12-31">>)}]
    \cup
    [fn : {"insider_trading"}, symbol : {PyNone, PyStr(<<>>), PyStr(<<"AAPL">>)},
     reporting_cik : {PyNone, PyInt(0), PyInt(1548760)},
     company_cik : {PyNone, PyInt(320193)}, limit : {10}]
    \cup
    [fn : {"economic_calendar"}, from_date : {PyStr(<<"2024-08-20">>)}, to_date : {PyNone},
     output : Outputs,
     impact_filter : {DefaultImpactFilter, PyNone, PyList(<<>>), PyStr(<<"High">>),
                      PyList(<<PyStr(<<"High">>), PyStr(<<"Low">>)>>)},
     country_filter : {PyNone, PyStr(<<"US">>), PyList(<<PyStr(<<"US">>), PyStr(<<"EU">>)>>)},
     currency_filter : {PyNone, PyList(<<PyStr(<<"EUR">>)>>)}]
    \cup
    [fn : {"earning_calendar"}, from_date : {PyNone, PyStr(<<"2023-01-01">>)},
     to_date : {PyNone}, estimate_required : BOOLEAN,
     revenue_minimum : {PyInt(DefaultRevenueMinimum), PyInt(0)}, output : Outputs]
    \cup
    [fn : {"income_statement"}, symbol : {"AAPL"}, period : {"annual", "quarter", "monthly"},
     limit : {10}, download : BOOLEAN, filename : {"income_statement.csv"},
     output : Outputs]
    \cup
    [fn : {"technical_indicators"}, symbol : {"AAPL"}, period : {10},
     statistics_type : {"sma", "rsi", "macd"}, time_delta : {"1day", "1hour", "1week"},
     condensed : BOOLEAN]
    \cup
    [fn : {"historical_chart"}, symbol : {"AAPL"}, timeframe : {"1day", "daily", "2day"},
     from_date : {PyStr(<<"2023-08-10">>)}, to_date : {PyNone, PyStr(<<"2023-09-10">>)},
     time_series : {DEFAULT_LINE_PARAMETER},
     time_delta : {PyNone, PyStr(<<"5min">>), PyStr(<<"weekly">>)}, condensed : BOOLEAN]
    \cup
    [fn : {"stock_screener"}, args : ScreenerArgs,
     sector : {PyNone, PyStr(<<>>), PyStr(<<"Technology">>), PyStr(<<"Tech">>)},
     industry : {PyNone, PyStr(<<"Software">>), PyStr(<<"Apps">>)},
     country : {PyNone, PyStr(<<"US">>)},
     exchange : {PyNone, PyStr(<<"NASDAQ">>),
                 PyList(<<PyStr(<<"NYSE">>), PyStr(<<"NASDAQ">>)>>)},
     limit : {10}]

Init ==
    /\ pc = "start"
    /\ call \in Calls
    /\ ret = Idle
    /\ log = <<>>
    /\ files \in (IF "filename" \in DOMAIN call
                  THEN [{call.filename} -> {"absent", "old body", "unwritable"}]
                  ELSE {NoFiles})
    /\ reply = Idle
    /\ frame = Idle

\* the call returns or raises; `response` is what the provider answered
Finish(did, response) ==
    /\ pc' = "done"
    /\ reply' = (IF \E i \in 1..Len(did.log) : did.log[i].op = "GET" THEN response ELSE Idle)
    /\ ret' = did.ret
    /\ log' = did.log
    /\ files' = did.files
    /\ UNCHANGED <<call, frame>>

CallCompanyProfile ==
    /\ pc = "start"
    /\ call.fn = "company_profile"
    /\ \E response \in JsonResponses(ProfileRecords) :
          Finish(company_profile(call.symbol, call.output, response, files), response)

CallEarningCalendar ==
    /\ pc = "start"
    /\ call.fn = "earning_calendar"
    /\ \E response \in JsonResponses(EarningRecords) :
          Finish(earning_calendar(call.from_date, call.to_date, call.estimate_required,
                                  call.revenue_minimum, call.output, response, files),
                 response)

CallIncomeStatement ==
    /\ pc = "start"
    /\ call.fn = "income_statement"
    /\ \E response \in (IF call.download THEN HttpResponses
                        ELSE JsonResponses(ProfileRecords)) :
          Finish(income_statement(call.symbol, call.period, call.limit, call.download,
                                  call.filename, call.output, response, files),
                 response)

CallEconomicCalendar ==
    /\ pc = "start"
    /\ call.fn = "economic_calendar"
    /\ \E response \in JsonResponses(EconomicRecords) :
          Finish(economic_calendar(call.from_date, call.to_date, call.output,
                                   call.impact_filter, call.country_filter,
                                   call.currency_filter, response, files),
                 response)

CallInsiderTrading ==
    /\ pc = "start"
    /\ call.fn = "insider_trading"
    /\ \E response \in JsonResponses(ProfileRecords) :
          Finish(insider_trading(call.symbol, call.reporting_cik, call.company_cik,
                                 call.limit, response, files),
                 response)

CallQuote ==
    /\ pc = "start"
    /\ call.fn = "quote"
    /\ \E response \in JsonResponses(ProfileRecords) :
       \E order \in KeyOrders(return_json_v3(<<>>, EmptyMap, response).result) :
          Finish(quote(call.symbol, call.condensed, order, response, files), response)

CallMultipleCompanyPrices ==
    /\ pc = "start"
    /\ call.fn = "multiple_company_prices"
    /\ \E response \in JsonResponses(ProfileRecords) :
       \E order \in KeyOrders(return_json_v3(<<>>, EmptyMap, response).result) :
          Finish(multiple_company_prices(call.symbol, call.condensed, order, response, files),
                 response)

CallHistoricalPriceFull ==
    /\ pc = "start"
    /\ call.fn = "historical_price_full"
    /\ \E response \in HistoricalResponses :
       \E order \in KeyOrders(historical_data(return_json_v3(<<>>, EmptyMap, response).result)) :
          Finish(historical_price_full(call.symbol, call.from_date, call.to_date,
                                       call.condensed, order, response, files),
                 response)

CallCommodityPrice ==
    /\ pc = "start"
    /\ call.fn = "commodity_price"
    /\ \E response \in HistoricalResponses :
       \E order \in KeyOrders(historical_data(return_json_v3(<<>>, EmptyMap, response).result)) :
          Finish(commodity_price(call.symbol, call.from_date, call.to_date,
                                 call.condensed, order, response, files),
                 response)

CallForexHistorical ==
    /\ pc = "start"
    /\ call.fn = "forex_historical"
    /\ \E response \in HistoricalResponses :
          Finish(forex_historical(call.symbol, call.from_date.s, call.to_date.s,
                                  response, files),
                 response)

CallSp500Constituent ==
    /\ pc = "start"
    /\ call.fn = "sp500_constituent"
    /\ \E response \in (IF call.download THEN HttpResponses
                        ELSE JsonResponses(ProfileRecords)) :
       \E order \in KeyOrders(return_json_v3(<<>>, EmptyMap, response).result) :
          Finish(sp500_constituent(call.download, call.filename, call.condensed, order,
                                   response, files),
                 response)

CallSecRssFeeds ==
    /\ pc = "start"
    /\ call.fn = "sec_rss_feeds"
    /\ \E response \in (IF call.download THEN HttpResponses
                        ELSE JsonResponses(ProfileRecords)) :
       \E order \in KeyOrders(return_json_v3(<<>>, EmptyMap, response).result) :
          Finish(sec_rss_feeds(call.limit, call.download, call.filename, call.condensed,
                               order, response, files),
                 response)

CallTechnicalIndicators ==
    /\ pc = "start"
    /\ call.fn = "technical_indicators"
    /\ \E response \in JsonResponses(ProfileRecords) :
       \E order \in KeyOrders(return_json_v3(<<>>, EmptyMap, response).result) :
          Finish(technical_indicators(call.symbol, call.period, call.statistics_type,
                                      call.time_delta, call.condensed, order, response,
                                      files),
                 response)

CallHistoricalChart ==
    /\ pc = "start"
    /\ call.fn = "historical_chart"
    /\ \E response \in JsonResponses(ProfileRecords) :
       \E order \in KeyOrders(return_json_v3(<<>>, EmptyMap, response).result) :
          Finish(historical_chart(call.symbol, call.timeframe, call.from_date,
                                  call.to_date, call.time_series, call.time_delta,
                                  call.condensed, order, response, files),
                 response)

CallStockScreener ==
    /\ pc = "start"
    /\ call.fn = "stock_screener"
    /\ \E response \in JsonResponses(ProfileRecords) :
          Finish(stock_screener(call.args, call.sector, call.industry, call.country,
                                call.exchange, call.limit, response, files),
                 response)

Next ==
    \/ CallCompanyProfile
    \/ CallEarningCalendar
    \/ CallIncomeStatement
    \/ CallEconomicCalendar
    \/ CallInsiderTrading
    \/ CallQuote
    \/ CallMultipleCompanyPrices
    \/ CallHistoricalPriceFull
    \/ CallCommodityPrice
    \/ CallForexHistorical
    \/ CallSp500Constituent
    \/ CallSecRssFeeds
    \/ CallTechnicalIndicators
    \/ CallHistoricalChart
    \/ CallStockScreener

Spec == Init /\ [][Next]_vars

(***************************************************************************)
(* SpecFilings: sec_filings_data, step by step.  The call lists the        *)
(* filings, then walks the list: a filing with a finalLink is requested    *)
(* from the SEC and the call waits for the answer before it goes on.       *)
(* frame holds the call's local variables: the filings, the position in    *)
(* the list and the requests that wait for an answer.                      *)
(***************************************************************************)
SEC_USER_AGENT == "SEC_USER_AGENT"

KeyFinalLink == <<"finalLink">>
KeyContent == <<"content">>

\* an HTML document as the parser sees it: opening tags, closing tags, text
HtmlOpen(name) == [node |-> "open", name |-> name]
HtmlClose(name) == [node |-> "close", name |-> name]
HtmlText(s) == [node |-> "text", s |-> s]

\* the text nodes outside script and style elements
RECURSIVE VisibleText(_, _)
VisibleText(nodes, hidden) ==
    IF nodes = <<>> THEN <<>>
    ELSE LET n == Head(nodes)
         IN  IF n.node = "open" /\ n.name \in {"script", "style"}
             THEN VisibleText(Tail(nodes), TRUE)
             ELSE IF n.node = "close" /\ n.name \in {"script", "style"}
             THEN VisibleText(Tail(nodes), FALSE)
             ELSE IF n.node = "text" /\ ~hidden
             THEN <<<<n.s>>>> \o VisibleText(Tail(nodes), hidden)
             ELSE VisibleText(Tail(nodes), hidden)

\* clean_html_content(soup): script and style elements removed, tags dropped,
\* the words of the text joined by single spaces
clean_html_content(soup) == Join(<<SP>>, VisibleText(soup, FALSE))

\* a request for a filing that carries the API key as a query parameter
GetWithHeaders_SendsApiKey(url, headers) ==
    [op |-> "GET", url |-> url, headers |-> headers,
     params |-> With(EmptyMap, "apikey", API_KEY)]

\* requests.get(final_link, headers=headers)
GetWithHeaders(url, headers) == [op |-> "GET", url |-> url, headers |-> headers]

\* the answer to a request arrives: a response or a transport error
Completed(page) == [op |-> "response", page |-> page]

\* response.raise_for_status() raises for a 4xx or 5xx status
RaisesForStatus(page) == page.status >= 400

\* str(e) of the RequestException of a failed fetch
ExceptionText(page) ==
    IF page.kind = "transport_error" THEN <<"Connection refused">>
    ELSE NatText(page.status) \o <<" Error">>

\* filing[key] = value
DictSet(d, key, value) ==
    IF HasKey(d, key)
    THEN PyDict([i \in 1..Len(d.v) |-> IF d.v[i].k = key THEN [k |-> key, v |-> value]
                                       ELSE d.v[i]])
    ELSE PyDict(Append(d.v, [k |-> key, v |-> value]))

\* a loop that requests every filing, with or without a link
has_final_link_Always(filing) == TRUE

\* final_link = filing.get('finalLink'); if final_link:
has_final_link(filing) == Truthy(DictGet(filing, KeyFinalLink, PyNone))

\* a try block that drops the failure instead of recording it
fetch_content_DropsFailure(filing, page) ==
    IF page.kind = "response" /\ ~RaisesForStatus(page)
    THEN DictSet(filing, KeyContent, PyStr(clean_html_content(page.content)))
    ELSE filing

\* the try block of the loop, given the answer to the request: the filing
\* with its content, the cleaned page or the text of the failure
fetch_content(filing, page) ==
    IF page.kind = "response" /\ ~RaisesForStatus(page)
    THEN DictSet(filing, KeyContent, PyStr(clean_html_content(page.content)))
    ELSE DictSet(filing, KeyContent,
                 PyStr(<<"Error fetching content: ">> \o ExceptionText(page)))

sec_filings(symbol, filing_type, limit, response) ==
    return_json_v3(<<"sec_filings/", symbol>>,
                   With(With(With(EmptyMap, "apikey", API_KEY), "type", filing_type),
                        "limit", limit),
                   response)

\* filings with a link, without one, and with a null or an empty link
FilingRecords ==
    {PyDict(<<[k |-> <<"type">>, v |-> PyStr(<<"10-K">>)]>> \o link) :
        link \in {<<>>} \cup {<<[k |-> KeyFinalLink, v |-> x]>> :
                     x \in {PyNone, PyStr(<<>>), PyStr(<<"https://www.sec.gov/a.htm">>),
                            PyStr(<<"https://www.sec.gov/b.htm">>)}}}

HtmlBodies ==
    {<<HtmlOpen("p"), HtmlText("Annual"), HtmlClose("p"), HtmlText("report")>>,
     <<HtmlOpen("script"), HtmlText("track()"), HtmlClose("script"), HtmlText("Annual")>>}

\* what the SEC may answer with
PageResponses ==
    {[kind |-> "transport_error"]} \cup
    {[kind |-> "response", status |-> st, content |-> c] :
        st \in {200, 404}, c \in HtmlBodies}

InitFilings ==
    /\ pc = "start"
    /\ call \in [fn : {"sec_filings_data"}, symbol : {"AAPL"}, filing_type : {""},
                 limit : {1}, output : Outputs]
    /\ ret = Idle
    /\ log = <<>>
    /\ files = NoFiles
    /\ reply = Idle
    /\ frame = Idle

\* filings = sec_filings(symbol, filing_type, limit); None ends the call
ListFilings ==
    /\ pc = "start"
    /\ \E response \in JsonResponses(FilingRecords) :
          LET fetched == sec_filings(call.symbol, call.filing_type, call.limit, response)
          IN  /\ log' = <<fetched.event>>
              /\ reply' = response
              /\ IF fetched.result = PyNone
                 THEN /\ pc' = "done"
                      /\ ret' = Return(PyNone, <<>>)
                      /\ frame' = frame
                 ELSE /\ pc' = "loop"
                      /\ ret' = ret
                      /\ frame' = [filings |-> fetched.result.v, i |-> 1, waiting |-> {}]
    /\ UNCHANGED <<call, files>>

\* a filing without a link is passed over
SkipFiling ==
    /\ pc = "loop"
    /\ frame.i <= Len(frame.filings)
    /\ ~has_final_link(frame.filings[frame.i])
    /\ frame' = [frame EXCEPT !.i = @ + 1]
    /\ UNCHANGED <<pc, call, ret, log, files, reply>>

\* requests.get is called for the filing's link
RequestFiling ==
    /\ pc = "loop"
    /\ frame.i <= Len(frame.filings)
    /\ has_final_link(frame.filings[frame.i])
    /\ pc' = "fetching"
    /\ log' = Append(log, GetWithHeaders(DictGet(frame.filings[frame.i], KeyFinalLink, PyNone),
                                         ("User-Agent" :> SEC_USER_AGENT)))
    /\ frame' = [frame EXCEPT !.waiting = @ \cup {frame.i}]
    /\ UNCHANGED <<call, ret, files, reply>>

\* requests.get comes back, with a response or an error; the filing gets its
\* content and the loop goes on
ReceiveFiling ==
    /\ pc = "fetching"
    /\ \E page \in PageResponses :
          /\ log' = Append(log, Completed(page))
          /\ frame' = [frame EXCEPT !.filings[frame.i] = fetch_content(@, page),
                                    !.i = @ + 1,
                                    !.waiting = @ \ {frame.i}]
    /\ pc' = "loop"
    /\ UNCHANGED <<call, ret, files, reply>>

\* return format_output(filings, output)
ReturnFilings ==
    /\ pc = "loop"
    /\ frame.i > Len(frame.filings)
    /\ pc' = "done"
    /\ ret' = format_output(PyList(frame.filings), call.output, PyNone)
    /\ UNCHANGED <<call, log, files, reply, frame>>

NextFilings ==
    \/ ListFilings
    \/ SkipFiling
    \/ RequestFiling
    \/ ReceiveFiling
    \/ ReturnFilings

SpecFilings == InitFilings /\ [][NextFilings]_vars

(***************************************************************************)
(* SpecDownloads: two download=True calls of income_statement on the same  *)
(* filename, run by two threads of one caller.  A call is three steps:     *)
(* the GET, open(filename, "wb"), which creates or truncates the file and  *)
(* gives the call a handle of its own at position 0, and write, which      *)
(* stores the body at the handle's position.  The file is the sequence of  *)
(* its bytes; nothing orders the steps of one call against the other's.    *)
(***************************************************************************)
MaxBody == 3

Callers == {1, 2}

SharedFilename == "income_statement.csv"

\* the bytes of a response body
Bytes == {"a", "b"}
Bodies == SeqsUpTo(Bytes, MaxBody) \ {<<>>}

\* the file after `data` is written at `position` of a handle: the bytes
\* under the write are replaced, the bytes after it stay
WriteAt(content, position, data) ==
    [i \in 1..(IF Len(content) > position + Len(data) THEN Len(content)
               ELSE position + Len(data)) |->
        IF i > position /\ i <= position + Len(data) THEN data[i - position]
        ELSE content[i]]

InitDownloads ==
    /\ pc = [p \in Callers |-> "get"]
    /\ call = [p \in Callers |->
                 [fn |-> "income_statement", symbol |-> "AAPL", period |-> "annual",
                  limit |-> 10, download |-> TRUE, filename |-> SharedFilename]]
    /\ ret = [p \in Callers |-> Idle]
    /\ log = <<>>
    /\ files \in [{SharedFilename} -> {[exists |-> FALSE, content |-> <<>>],
                                       [exists |-> TRUE, content |-> <<"o", "l", "d">>]}]
    /\ reply = [p \in Callers |-> Idle]
    /\ frame = [p \in Callers |-> Idle]

\* response = requests.get(f"{BASE_URL_v3}{path}", params=query_vars)
DownloadGet(p) ==
    /\ pc[p] = "get"
    /\ \E response \in [kind : {"response"}, status : {200, 401}, content : Bodies] :
          /\ reply' = [reply EXCEPT ![p] = response]
          /\ log' = Append(log,
                           Get(<<BASE_URL_v3, "income-statement/", call[p].symbol>>,
                               With(With(With(With(EmptyMap, "apikey", API_KEY),
                                              "limit", call[p].limit),
                                         "period", call[p].period),
                                    "datatype", "csv")))
    /\ pc' = [pc EXCEPT ![p] = "open"]
    /\ UNCHANGED <<call, ret, files, frame>>

\* open(filename, "wb")
DownloadOpen(p) ==
    /\ pc[p] = "open"
    /\ files' = [files EXCEPT ![call[p].filename] = [exists |-> TRUE, content |-> <<>>]]
    /\ frame' = [frame EXCEPT ![p] = [kind |-> "handle", position |-> 0]]
    /\ log' = Append(log, Open(call[p].filename))
    /\ pc' = [pc EXCEPT ![p] = "write"]
    /\ UNCHANGED <<call, ret, reply>>

\* .write(response.content), and the call returns None
DownloadWrite(p) ==
    /\ pc[p] = "write"
    /\ files' = [files EXCEPT ![call[p].filename].content =
                     WriteAt(@, frame[p].position, reply[p].content)]
    /\ frame' = [frame EXCEPT ![p].position = @ + Len(reply[p].content)]
    /\ log' = Append(log, Write(call[p].filename, reply[p].content))
    /\ ret' = [ret EXCEPT ![p] = Return(PyNone, <<>>)]
    /\ pc' = [pc EXCEPT ![p] = "done"]
    /\ UNCHANGED <<call, reply>>

NextDownloads ==
    \E p \in Callers : DownloadGet(p) \/ DownloadOpen(p) \/ DownloadWrite(p)

SpecDownloads == InitDownloads /\ [][NextDownloads]_vars

(***************************************************************************)
(* JSON texts of tool-call arguments.  A text is a sequence of characters, *)
(* the words inside a string literal each standing for their characters.   *)
(***************************************************************************)
LBRACE == "{"
RBRACE == "}"
COLON == ":"
COMMA == ","

\* Reading an object of string members, a character at a time.  `expect`
\* is what may come next, `word` the characters of the literal being read,
\* `key` the member's key and `items` the members read so far.  Spaces
\* between tokens are skipped.  The result is the dict, or no value
\* (ok = FALSE) for a text that is not such an object.
RECURSIVE JsonParse(_, _, _, _, _)
JsonParse(text, expect, word, key, items) ==
    IF text = <<>>
    THEN (IF expect = "end" THEN [ok |-> TRUE, value |-> PyDict(items)] ELSE [ok |-> FALSE])
    ELSE IF expect = "in key"
    THEN (IF Head(text) = QUOTE THEN JsonParse(Tail(text), "colon", <<>>, word, items)
          ELSE JsonParse(Tail(text), expect, Append(word, Head(text)), key, items))
    ELSE IF expect = "in value"
    THEN (IF Head(text) = QUOTE
          THEN JsonParse(Tail(text), "comma or close", <<>>, <<>>,
                         Append(items, [k |-> key, v |-> PyStr(word)]))
          ELSE JsonParse(Tail(text), expect, Append(word, Head(text)), key, items))
    ELSE IF Head(text) = SP THEN JsonParse(Tail(text), expect, word, key, items)
    ELSE IF expect = "open" /\ Head(text) = LBRACE
    THEN JsonParse(Tail(text), "key or close", word, key, items)
    ELSE IF expect \in {"key or close", "key"} /\ Head(text) = QUOTE
    THEN JsonParse(Tail(text), "in key", <<>>, key, items)
    ELSE IF expect \in {"key or close", "comma or close"} /\ Head(text) = RBRACE
    THEN JsonParse(Tail(text), "end", word, key, items)
    ELSE IF expect = "colon" /\ Head(text) = COLON
    THEN JsonParse(Tail(text), "value", word, key, items)
    ELSE IF expect = "value" /\ Head(text) = QUOTE
    THEN JsonParse(Tail(text), "in value", <<>>, key, items)
    ELSE IF expect = "comma or close" /\ Head(text) = COMMA
    THEN JsonParse(Tail(text), "key", word, key, items)
    ELSE [ok |-> FALSE]

\* json.loads(text) for an object of string members: the dict, or
\* JSONDecodeError (ok = FALSE)
json_loads(text) == JsonParse(text, "open", <<>>, <<>>, <<>>)

\* a string literal
JsonString(s) == <<QUOTE>> \o s \o <<QUOTE>>

\* json.dumps(value): members separated by ", ", key and value by ": "
json_dumps(value) ==
    IF value.t = "dict"
    THEN <<LBRACE>>
         \o Join(<<COMMA, SP>>,
                 [m \in 1..Len(value.v) |->
                    JsonString(value.v[m].k) \o <<COLON, SP>> \o JsonString(value.v[m].v.s)])
         \o <<RBRACE>>
    ELSE JsonString(value.s)

(***************************************************************************)
(* SpecChat: the documentation tool's chat session, step by step.  The     *)
(* model's answers are the environment: each request is answered with a    *)
(* choice of any finish reason, or fails; the model asks for tools at most *)
(* MaxTurns times.                                                         *)
(***************************************************************************)
MaxTurns == 2
MaxToolCalls == 2

WEB_SEARCH == "$web_search"

\* search_impl(arguments)
search_impl(arguments) == arguments

SystemMessage == [role |-> "system", content |-> "system prompt"]
InstructionMessage == [role |-> "user", content |-> "instruction"]
ContinueMessage == [role |-> "user", content |-> "continue"]

\* f"Error: unable to find tool by name '{tool_call_name}'"
UnknownTool(tool_call_name) ==
    PyStr(<<"Error:", SP, "unable", SP, "to", SP, "find", SP, "tool", SP, "by", SP,
            "name", SP, "'", tool_call_name, "'">>)

\* the tool-role message for a tool call whose arguments were decoded
tool_message_EchoesText(tool_call, tool_call_arguments) ==
    [role |-> "tool", tool_call_id |-> tool_call.id, name |-> tool_call.function.name,
     content |-> tool_call.function.arguments]

tool_message(tool_call, tool_call_arguments) ==
    LET tool_call_name == tool_call.function.name
        tool_result == IF tool_call_name = WEB_SEARCH THEN search_impl(tool_call_arguments)
                       ELSE UnknownTool(tool_call_name)
    IN  [role |-> "tool", tool_call_id |-> tool_call.id, name |-> tool_call_name,
         content |-> json_dumps(tool_result)]

\* arguments texts the model may send: compact, spaced, and cut short
CompactArguments ==
    <<LBRACE, QUOTE, "query", QUOTE, COLON, QUOTE, "fmp", SP, "docs", QUOTE, RBRACE>>
SpacedArguments ==
    <<LBRACE, QUOTE, "query", QUOTE, COLON, SP, QUOTE, "fmp", SP, "docs", QUOTE, RBRACE>>
CutArguments == <<LBRACE, QUOTE, "query", QUOTE, COLON, QUOTE, "fmp">>

\* the tool calls the model may ask for: the declared tool, or another name
ToolCallOptions ==
    [name : {WEB_SEARCH}, arguments : {CompactArguments, CutArguments}]
    \cup [name : {"$calculator"}, arguments : {SpacedArguments}]

ToolCallIds == <<"call_1", "call_2", "call_3">>

\* the tool calls of one answer, their ids by position
ToolCallLists ==
    UNION {{[i \in 1..n |-> [id |-> ToolCallIds[i], function |-> asked[i]]] :
              asked \in [1..n -> ToolCallOptions]} : n \in 1..MaxToolCalls}

\* the choices the model may answer with
ToolChoices ==
    {[finish_reason |-> "tool_calls",
      message |-> [role |-> "assistant", content |-> "", tool_calls |-> calls]] :
        calls \in ToolCallLists}

FinalChoices ==
    {[finish_reason |-> reason,
      message |-> [role |-> "assistant", content |-> "catalog", tool_calls |-> <<>>]] :
        reason \in {"stop", "length"}}

\* the continuation may be answered with a request for a tool as well; the
\* script does not look at its finish reason
ContinuationToolChoices ==
    {choice \in ToolChoices :
        /\ Len(choice.message.tool_calls) = 1
        /\ choice.message.tool_calls[1].function =
              [name |-> WEB_SEARCH, arguments |-> CompactArguments]}

\* client.chat.completions.create(messages=messages, ...) as the provider sees it
ChatRequest(messages) == [op |-> "chat", messages |-> messages]

\* completion.choices[0] as the script receives it
ChatAnswer(choice) == [op |-> "choice", choice |-> choice]

\* print(content)
Printed(content) == [op |-> "print", content |-> content]

InitChat ==
    /\ pc = "while"
    /\ call = [fn |-> "doc2json"]
    /\ ret = Idle
    /\ log = <<>>
    /\ files = NoFiles
    /\ reply = Idle
    /\ frame = [messages |-> <<SystemMessage, InstructionMessage>>,
                finish_reason |-> "None", i |-> 0, turns |-> 0]

\* while finish_reason is None or finish_reason == "tool_calls":
\*     choice = chat(messages); finish_reason = choice.finish_reason
Chat ==
    /\ pc = "while"
    /\ frame.finish_reason \in {"None", "tool_calls"}
    /\ \E choice \in FinalChoices \cup (IF frame.turns < MaxTurns THEN ToolChoices ELSE {}) :
          /\ reply' = choice
          /\ log' = log \o <<ChatRequest(frame.messages), ChatAnswer(choice)>>
          /\ frame' = [frame EXCEPT !.finish_reason = choice.finish_reason,
                                    !.turns = IF choice.finish_reason = "tool_calls"
                                              THEN @ + 1 ELSE @]
          /\ pc' = IF choice.finish_reason = "tool_calls" THEN "append" ELSE "while"
    /\ UNCHANGED <<call, ret, files>>

\* chat(messages) raising: the request fails and the script ends with the error
ChatFails ==
    /\ pc \in {"while", "continue"}
    /\ pc = "while" => frame.finish_reason \in {"None", "tool_calls"}
    /\ log' = Append(log, ChatRequest(frame.messages))
    /\ ret' = Raise("APIError", <<>>)
    /\ pc' = "done"
    /\ UNCHANGED <<call, files, reply, frame>>

\* messages.append(choice.message)
AppendAssistant ==
    /\ pc = "append"
    /\ frame' = [frame EXCEPT !.messages = Append(@, reply.message), !.i = 1]
    /\ pc' = "for"
    /\ UNCHANGED <<call, ret, log, files, reply>>

\* one round of the for loop over choice.message.tool_calls
ToolResult ==
    /\ pc = "for"
    /\ frame.i <= Len(reply.message.tool_calls)
    /\ LET tool_call == reply.message.tool_calls[frame.i]
           loaded == json_loads(tool_call.function.arguments)
       IN  IF loaded.ok
           THEN /\ frame' = [frame EXCEPT !.messages =
                                              Append(@, tool_message(tool_call, loaded.value)),
                                          !.i = @ + 1]
                /\ pc' = "for"
                /\ ret' = ret
           ELSE /\ ret' = Raise("JSONDecodeError", <<>>)
                /\ pc' = "done"
                /\ frame' = frame
    /\ UNCHANGED <<call, log, files, reply>>

\* the for loop is over: back to the while test
EndToolResults ==
    /\ pc = "for"
    /\ frame.i > Len(reply.message.tool_calls)
    /\ pc' = "while"
    /\ UNCHANGED <<call, ret, log, files, reply, frame>>

\* the while test fails: print(choice.message.content) and
\* messages.append({"role": "user", "content": ...})
LeaveLoop ==
    /\ pc = "while"
    /\ frame.finish_reason \notin {"None", "tool_calls"}
    /\ log' = Append(log, Printed(reply.message.content))
    /\ frame' = [frame EXCEPT !.messages = Append(@, ContinueMessage)]
    /\ pc' = "continue"
    /\ UNCHANGED <<call, ret, files, reply>>

\* choice = chat(messages); print(choice.message.content); the script ends
Continuation ==
    /\ pc = "continue"
    /\ \E choice \in FinalChoices \cup ContinuationToolChoices :
          /\ reply' = choice
          /\ log' = log \o <<ChatRequest(frame.messages), ChatAnswer(choice),
                             Printed(choice.message.content)>>
    /\ ret' = Return(PyNone, <<>>)
    /\ pc' = "done"
    /\ UNCHANGED <<call, files, frame>>

NextChat ==
    \/ Chat
    \/ ChatFails
    \/ AppendAssistant
    \/ ToolResult
    \/ EndToolResults
    \/ LeaveLoop
    \/ Continuation

SpecChat == InitChat /\ [][NextChat]_vars

\* the script runs on: a step that can be taken is taken
SpecChatFair == SpecChat /\ WF_vars(NextChat)

(***************************************************************************)
(* Reading a rendered table back.                                          *)
(***************************************************************************)
\* every record has the key set of the first
UniformKeys(data) ==
    \A i \in 1..Len(data.v) : Range(DictKeys(data.v[i])) = Range(DictKeys(data.v[1]))

\* the table a collection stands for: the first record's keys, then per record
\* the text of each value, a missing key as the empty text
TableOf(data, TextOf(_)) ==
    LET keys == DictKeys(data.v[1])
    IN  <<keys>> \o [i \in 1..Len(data.v) |->
                       [j \in 1..Len(keys) |-> TextOf(DictGet(data.v[i], keys[j], PyStr(<<>>)))]]

\* the text the csv writer is given for a value: None is the empty text
CsvText(x) == IF x.t = "none" THEN <<>> ELSE StrOf(x)

\* split on newline, then each line on tab
TsvParse(text) ==
    LET lines == Split(text, NL)
    IN  [i \in 1..Len(lines) |-> Split(lines[i], TAB)]

\* a cell without the one space the renderer puts on each side of it
Unpad(cell) ==
    LET a == IF cell # <<>> /\ Head(cell) = SP THEN Tail(cell) ELSE cell
    IN  IF a # <<>> /\ a[Len(a)] = SP THEN SubSeq(a, 1, Len(a) - 1) ELSE a

\* split a row on the pipe; the pieces before the first and after the last pipe
\* are not cells
MarkdownRowParse(line) ==
    LET pieces == Split(line, PIPE)
    IN  [j \in 1..(Len(pieces) - 2) |-> Unpad(pieces[j + 1])]

\* split on newline, drop the dash separator row, split each row on the pipe
MarkdownParse(text) ==
    LET lines == Split(text, NL)
        kept == [i \in 1..(Len(lines) - 1) |-> IF i = 1 THEN lines[1] ELSE lines[i + 1]]
    IN  [i \in 1..Len(kept) |-> MarkdownRowParse(kept[i])]

\* no name and no value holds a character the csv writer quotes, there is a
\* column, and the only cell of a one-column row is not empty
TsvPlain(data) ==
    LET keys == DictKeys(data.v[1])
        texts == Range(keys) \cup
                 {CsvText(data.v[i].v[j].v) : i \in 1..Len(data.v), j \in 1..Len(keys)}
    IN  /\ keys # <<>>
        /\ \A t \in texts : Range(t) \cap {TAB, NL, QUOTE} = {}
        /\ Len(keys) = 1 => \A t \in texts : t # <<>>

(***************************************************************************)
(* The claims.                                                             *)
(***************************************************************************)
ValidOutputs == {"json", "tsv", "markdown"}

\* C1: format_output called with an output outside json, tsv and markdown
\* raises ValueError, returns no value and has invoked neither renderer.
C1_UnsupportedOutputRaises ==
    (pc = "format_output" /\ call.output \notin ValidOutputs)
        => (ret.kind = "raise" /\ ret.exc = "ValueError" /\ log = <<>>)

C1_Witness ==
    /\ pc = "format_output"
    /\ call.output = "csv"
    /\ Truthy(call.data)
    /\ ret.kind = "raise"

\* C3 (as claimed): for a non-empty collection with uniform keys (and a field
\* in its records), parsing the Markdown rendering back recovers the field
\* names in order and every value as a string.
C3_MarkdownRoundTrip ==
    (pc = "markdown" /\ Truthy(call.data) /\ UniformKeys(call.data)
        /\ DictKeys(call.data.v[1]) # <<>>)
        => MarkdownParse(ret.value.s) = TableOf(call.data, StrOf)

\* C4 (as claimed): for a non-empty collection with uniform keys (and a field
\* in its records), splitting the TSV rendering on newline and tab recovers
\* header and values; the text is one header line and one line per record, with
\* no trailing newline.
C4_TsvRoundTrip_AnyText ==
    (pc = "tsv" /\ Truthy(call.data) /\ UniformKeys(call.data)
        /\ DictKeys(call.data.v[1]) # <<>>)
        => /\ TsvParse(ret.value.s) = TableOf(call.data, CsvText)
           /\ Len(Split(ret.value.s, NL)) = 1 + Len(call.data.v)
           /\ (ret.value.s = <<>> \/ ret.value.s[Len(ret.value.s)] # NL)

\* C4 (amended): the same, for collections with at least one column whose names
\* and values hold no tab, newline or double quote, and whose rows are not a
\* single empty cell; a null value is recovered as the empty text.
C4_TsvRoundTrip ==
    (pc = "tsv" /\ Truthy(call.data) /\ UniformKeys(call.data) /\ TsvPlain(call.data))
        => /\ TsvParse(ret.value.s) = TableOf(call.data, CsvText)
           /\ Len(Split(ret.value.s, NL)) = 1 + Len(call.data.v)
           /\ ret.value.s[Len(ret.value.s)] # NL

C4_Witness ==
    /\ pc = "tsv"
    /\ Len(call.data.v) = 2
    /\ UniformKeys(call.data)
    /\ TsvPlain(call.data)
    /\ DictKeys(call.data.v[1]) = <<KeyA, KeyB>>
    /\ DictKeys(call.data.v[2]) = <<KeyB, KeyA>>
    /\ DictGet(call.data.v[2], KeyB, PyNone) = PyStr(<<>>)
    /\ ret.value.s[Len(ret.value.s)] = TAB

\* C5 (as claimed): the columns of the TSV and Markdown renderers are the
\* fields tuple whenever the caller supplies one, else the keys of the first
\* record; every row has as many cells as the header, and a column absent from
\* a record is an empty cell.
C5_ColumnSelection ==
    (pc = "format_output" /\ call.output \in {"tsv", "markdown"} /\ Truthy(call.data))
        => LET columns == IF call.fields.t = "tuple" THEN call.fields.v
                          ELSE DictKeys(call.data.v[1])
               table == IF call.output = "tsv"
                        THEN LET c == TsvCells(call.data, call.fields)
                             IN  [i \in 1..Len(c) |-> [j \in 1..Len(c[i]) |-> CsvText(c[i][j])]]
                        ELSE LET c == MarkdownCells(call.data, call.fields)
                             IN  [i \in 1..(Len(c) - 1) |-> IF i = 1 THEN c[1] ELSE c[i + 1]]
           IN  /\ table[1] = columns
               /\ \A i \in 1..Len(call.data.v) :
                     /\ Len(table[i + 1]) = Len(columns)
                     /\ \A j \in 1..Len(columns) :
                           ~HasKey(call.data.v[i], columns[j]) => table[i + 1][j] = <<>>

\* C10 (as claimed): a condensed table of a non-empty input has rows, header
\* included, of one length, the number of distinct field names of the records.
C10_RowWidth_DistinctNames ==
    (pc = "condensed" /\ Truthy(call.data))
        => \A i \in 1..Len(ret.value.v) :
              Len(ret.value.v[i]) = Cardinality(UnionKeys(call.data))

\* C10 (amended): every row, header included, has one length: the number of
\* distinct field names of the records when no fields tuple is passed, the
\* length of the fields tuple otherwise; a field missing from a record is a
\* cell holding the empty string.
C10_RowWidth ==
    (pc = "condensed" /\ Truthy(call.data))
        => LET table == ret.value.v
               width == IF call.fields.t = "none" THEN Cardinality(UnionKeys(call.data))
                        ELSE Len(call.fields.v)
           IN  /\ Len(table) = 1 + Len(call.data.v)
               /\ \A i \in 1..Len(table) : Len(table[i]) = width
               /\ \A i \in 1..Len(call.data.v) : \A j \in 1..width :
                     ~HasKey(call.data.v[i], table[1][j]) => table[i + 1][j] = <<>>

C10_Witness ==
    /\ pc = "condensed"
    /\ call.fields = PyNone
    /\ Truthy(call.data)
    /\ Len(call.data.v) = 2
    /\ DictKeys(call.data.v[1]) = <<KeyA>>
    /\ DictKeys(call.data.v[2]) = <<KeyB>>
    /\ Len(ret.value.v[2]) = 2
    /\ <<>> \in Range(ret.value.v[2])

(***************************************************************************)
(* The claims about apply_precision.                                       *)
(***************************************************************************)
\* the records of a record or of a list of records
RecordsIn(x) == IF x.t = "list" THEN x.v ELSE <<x>>

\* the (record, field) positions of the call's data
Positions == {<<i, j>> \in (1..Len(RecordsIn(call.data))) \X (1..2) :
                 j <= Len(RecordsIn(call.data)[i].v)}

ValueIn(x, pos) == RecordsIn(x)[pos[1]].v[pos[2]].v

\* the number a rendered text writes: [m |-> signed coefficient, d |-> places]
NumberOf(text) ==
    LET dec == DecimalOf(text)
    IN  [m |-> IF dec.neg THEN -dec.coef ELSE dec.coef, d |-> dec.places]

\* m / 10^d rounded half-up (a tie goes away from zero) to k <= d places, as a
\* signed coefficient of 10^-k
HalfUp(m, d, k) ==
    LET unit == Pow10(d - k)
    IN  (IF m < 0 THEN -1 ELSE 1) * ((2 * Abs(m) + unit) \div (2 * unit))

Applied == pc = "apply_precision" /\ call.precision.t = "int"

C7_RoundsHalfUp ==
    Applied =>
        \A pos \in Positions :
            LET v == ValueIn(call.data, pos)
                d == IF v.t = "float" THEN v.d ELSE 0
                k == Min(call.precision.m, d)
            IN  v.t \in {"int", "float"} =>
                    NumberOf(ValueIn(ret.value, pos).s) = [m |-> HalfUp(v.m, d, k), d |-> k]

\* C8 (as claimed): a field holding a string, a boolean, null or a nested
\* value comes back identical, and every record keeps its keys.
C8_NonNumericUnchanged ==
    Applied =>
        /\ Len(RecordsIn(ret.value)) = Len(RecordsIn(call.data))
        /\ \A i \in 1..Len(RecordsIn(call.data)) :
              DictKeys(RecordsIn(ret.value)[i]) = DictKeys(RecordsIn(call.data)[i])
        /\ \A pos \in Positions :
              ValueIn(call.data, pos).t \in {"str", "bool", "none", "list", "dict"} =>
                  ValueIn(ret.value, pos) = ValueIn(call.data, pos)

\* the rendered text writes a whole number
IsIntegral(text) == LET n == NumberOf(text) IN n.m % Pow10(n.d) = 0

Requests == SelectSeq(log, LAMBDA e : e.op = "GET")

\* C2 (as claimed): a wrapper called with an unsupported output raises the
\* invalid-argument failure before any request is issued, whatever the other
\* arguments (download included) and the provider's response.
C2_OutputCheckedBeforeRequest ==
    (pc = "done" /\ "output" \in DOMAIN call /\ call.output \notin ValidOutputs)
        => (ret.kind = "raise" /\ ret.exc = "ValueError" /\ Requests = <<>>)

(***************************************************************************)
(* The claims about the calendars.                                         *)
(***************************************************************************)
\* the rendering of a collection the caller asked for with a valid output
Rendered(records, output, fields) ==
    CASE output = "json" -> PyList(records)
      [] output = "tsv" -> PyStr(compress_json_to_tsv(PyList(records), fields))
      [] output = "markdown" -> PyStr(compress_json_to_markdown(PyList(records), fields))

\* the record carries both estimates and its revenue estimate reaches the floor
EstimatedAtLeast(entry, floor) ==
    /\ HasKey(entry, KeyEpsEstimated)
    /\ DictGet(entry, KeyEpsEstimated, PyNone) # PyNone
    /\ HasKey(entry, KeyRevenueEstimated)
    /\ DictGet(entry, KeyRevenueEstimated, PyNone) # PyNone
    /\ ~LessThan(DictGet(entry, KeyRevenueEstimated, PyNone), floor)

\* C11: earning_calendar with estimate_required=True returns, rendered as the
\* output asks, exactly the provider's records that carry an epsEstimated and
\* a revenueEstimated and whose revenueEstimated is >= revenue_minimum, in
\* the provider's order, none added, duplicated or moved.
C11_EarningFiltering ==
    (/\ pc = "done" /\ call.fn = "earning_calendar" /\ call.estimate_required
     /\ reply.kind = "json" /\ call.output \in ValidOutputs)
        => /\ ret.kind = "return"
           /\ ret.value = Rendered(SelectSeq(reply.json.v, LAMBDA entry :
                                       EstimatedAtLeast(entry, call.revenue_minimum)),
                                   call.output, EarningFields)

C11_Witness ==
    /\ pc = "done" /\ call.fn = "earning_calendar" /\ call.estimate_required
    /\ call.revenue_minimum = PyInt(DefaultRevenueMinimum)
    /\ call.output = "json"
    /\ reply.kind = "json"
    /\ Len(reply.json.v) = 2
    /\ DictGet(reply.json.v[1], KeyRevenueEstimated, PyNone) = PyInt(500000000)
    /\ EstimatedAtLeast(reply.json.v[2], call.revenue_minimum)
    /\ ret.value = PyList(<<reply.json.v[2]>>)

\* a filter argument that is neither absent nor the empty list is active
Active(filter) == filter # PyNone /\ filter # PyList(<<>>)

\* the filter, a single value or a list of values, lets the value through
Accepts(filter, value) ==
    IF filter.t = "str" THEN value = filter ELSE \E i \in 1..Len(filter.v) : filter.v[i] = value

\* the event satisfies every active filter of the call
SatisfiesFilters(event) ==
    /\ Active(call.impact_filter)
          => Accepts(call.impact_filter, DictGet(event, KeyImpact, PyNone))
    /\ Active(call.country_filter)
          => Accepts(call.country_filter, DictGet(event, KeyCountry, PyNone))
    /\ Active(call.currency_filter)
          => Accepts(call.currency_filter, DictGet(event, KeyCurrency, PyNone))

\* C12: economic_calendar returns, rendered as the output asks, exactly the
\* provider's events that satisfy every active filter, in the provider's
\* order; a filter is a single value or a list, an absent filter and an empty
\* impact list filter nothing, and the default impact filter is ['High'].
C12_EconomicFiltering ==
    (/\ pc = "done" /\ call.fn = "economic_calendar"
     /\ reply.kind = "json" /\ call.output \in ValidOutputs)
        => /\ ret.kind = "return"
           /\ ret.value = Rendered(SelectSeq(reply.json.v, SatisfiesFilters),
                                   call.output, EconomicFields)

C12_Witness ==
    /\ pc = "done" /\ call.fn = "economic_calendar"
    /\ call.impact_filter = PyList(<<>>)
    /\ call.country_filter = PyStr(<<"US">>)
    /\ call.currency_filter = PyList(<<PyStr(<<"EUR">>)>>)
    /\ call.output = "json"
    /\ reply.kind = "json"
    /\ Len(reply.json.v) = 2
    /\ ~SatisfiesFilters(reply.json.v[1])
    /\ ~HasKey(reply.json.v[2], KeyImpact)
    /\ ret.value = PyList(<<reply.json.v[2]>>)

(***************************************************************************)
(* The claims about insider_trading.                                       *)
(***************************************************************************)
\* how many of symbol, reporting_cik and company_cik the call sets
IdentifiersSet ==
    Cardinality({x \in {"symbol", "reporting_cik", "company_cik"} : call[x] # PyNone})

\* C13: insider_trading called with none, or with two or more, of symbol,
\* reporting_cik and company_cik logs the error, then raises ValueError, and
\* issues no request; called with exactly one of them it issues its request.
C13_ExactlyOneIdentifier ==
    (pc = "done" /\ call.fn = "insider_trading")
        => IF IdentifiersSet = 1
           THEN /\ Len(log) = 1
                /\ log[1].op = "GET"
                /\ log[1].url = <<BASE_URL_v4, "insider-trading/">>
                /\ ret.kind = "return"
           ELSE /\ ret.kind = "raise" /\ ret.exc = "ValueError"
                /\ log = <<LogError(CombinedMessage)>>

C13_Witness ==
    /\ pc = "done" /\ call.fn = "insider_trading"
    /\ call.symbol # PyNone /\ call.company_cik # PyNone /\ call.reporting_cik = PyNone
    /\ ret.kind = "raise"
    /\ Requests = <<>>

(***************************************************************************)
(* The claims about the symbol and price accessors.                        *)
(***************************************************************************)
\* the symbols of a list written in one string, a comma between neighbours
RECURSIVE CommaSeparated(_)
CommaSeparated(symbols) ==
    IF symbols = <<>> THEN <<>>
    ELSE IF Len(symbols) = 1 THEN symbols[1].s
    ELSE symbols[1].s \o <<",">> \o CommaSeparated(Tail(symbols))

\* what the accessor of the call does when given `symbol` instead
WithSymbol(symbol) ==
    CASE call.fn = "quote" -> quote(symbol, call.condensed, <<>>, reply, files)
      [] call.fn = "multiple_company_prices" ->
            multiple_company_prices(symbol, call.condensed, <<>>, reply, files)
      [] call.fn = "historical_price_full" ->
            historical_price_full(symbol, call.from_date, call.to_date, call.condensed,
                                  <<>>, reply, files)

\* C14: quote, historical_price_full and multiple_company_prices called with
\* a list of symbols issue the request, path and query map, that they issue
\* when called with the one string joining the list with commas.
C14_ListAsJoinedString ==
    (/\ pc = "done"
     /\ call.fn \in {"quote", "multiple_company_prices", "historical_price_full"}
     /\ call.symbol.t = "list")
        => /\ Len(log) = 1
           /\ log = WithSymbol(PyStr(CommaSeparated(call.symbol.v))).log

C14_Witness ==
    /\ pc = "done"
    /\ call.fn = "quote"
    /\ call.symbol = PyList(<<PyStr(<<"AAPL">>), PyStr(<<"MSFT">>)>>)
    /\ log[1].url = <<BASE_URL_v3, "quote/", "AAPL", ",", "MSFT">>

\* the value the accessor returns for a series: the series compacted
IsSeries(value, series, condensed) ==
    \E order \in KeyOrders(series) :
        value = compress_json_to_tuples(series, condensed, PyNone, order)

\* C15 (as claimed): historical_price_full returns the series stored under
\* historicalStockList when the wrapper object has that key, otherwise the
\* series under historical, and None only when the wrapper has neither key;
\* an empty series and a wrapper with both keys included.
C15_UnwrapsHistorical ==
    (pc = "done" /\ call.fn = "historical_price_full" /\ reply.kind = "json")
        => /\ ret.kind = "return"
           /\ IF HasKey(reply.json, KeyHistoricalStockList)
              THEN IsSeries(ret.value, DictGet(reply.json, KeyHistoricalStockList, PyNone),
                            call.condensed)
              ELSE IF HasKey(reply.json, KeyHistorical)
              THEN IsSeries(ret.value, DictGet(reply.json, KeyHistorical, PyNone),
                            call.condensed)
              ELSE ret.value = PyNone

\* C16 (as claimed): commodity_price and forex_historical return what
\* historical_price_full returns for the same symbol, dates and response.
C16_SameUnwrapping ==
    (pc = "done" /\ call.fn \in {"commodity_price", "forex_historical"})
        => \E condensed \in (IF call.fn = "commodity_price" THEN {call.condensed} ELSE BOOLEAN) :
           \E order \in KeyOrders(historical_data(return_json_v3(<<>>, EmptyMap, reply).result)) :
              ret = historical_price_full(call.symbol, call.from_date, call.to_date,
                                          condensed, order, reply, files).ret

(***************************************************************************)
(* The claims about the CSV downloads.                                     *)
(***************************************************************************)
DownloadFunctions == {"income_statement", "sp500_constituent", "sec_rss_feeds"}

\* the file operations of the call
FileOperations == SelectSeq(log, LAMBDA e : e.op \in {"open", "write"})

\* the call took the download path: it asked the provider for CSV
TookDownloadPath ==
    \E i \in 1..Len(log) :
        log[i].op = "GET" /\ "datatype" \in DOMAIN log[i].params

\* the call took the JSON fetch-and-render path
TookJsonPath ==
    \E i \in 1..Len(log) :
        log[i].op = "GET" /\ "datatype" \notin DOMAIN log[i].params

\* C17 (as claimed): a call with download=True writes the response body to
\* the named file, does not take the JSON path and returns no value; a call
\* with download=False opens and writes no file; every call takes exactly
\* one of the two paths.
C17_DownloadWritesOrRenders ==
    (pc = "done" /\ call.fn \in DownloadFunctions)
        => /\ call.download
                 => /\ reply.kind = "response"
                    /\ files[call.filename] = reply.content
                    /\ ~TookJsonPath
                    /\ ret = Return(PyNone, <<>>)
           /\ ~call.download => FileOperations = <<>>
           /\ TookDownloadPath # TookJsonPath

\* C17 (amended): a call with download=True never takes the JSON path and
\* returns no value; it writes the response body to the named file when the
\* request completes and the file can be opened, and otherwise raises and
\* leaves the file as it was.  A call with download=False opens and writes
\* no file and leaves the files as they were.  No call takes both paths, and
\* a call takes neither only when its period is rejected before any request.
C17_DownloadShortCircuit ==
    [][(pc = "start" /\ call.fn \in DownloadFunctions)
        => LET rejected == call.fn = "income_statement"
                           /\ call.period \notin {"annual", "quarter"}
           IN  /\ (call.download /\ ~rejected)
                     => /\ TookDownloadPath' /\ ~TookJsonPath'
                        /\ ret'.called = <<>>
                        /\ ret'.kind = "return" => ret'.value = PyNone
                        /\ IF reply'.kind = "response" /\ files[call.filename] # "unwritable"
                           THEN /\ ret'.kind = "return"
                                /\ files' = With(files, call.filename, reply'.content)
                                /\ FileOperations' = <<Open(call.filename),
                                                       Write(call.filename, reply'.content)>>
                           ELSE /\ ret'.kind = "raise"
                                /\ files' = files
                                /\ \A i \in 1..Len(log') : log'[i].op # "write"
               /\ (~call.download /\ ~rejected)
                     => /\ TookJsonPath' /\ ~TookDownloadPath'
                        /\ FileOperations' = <<>>
                        /\ files' = files
               /\ rejected
                     => /\ ret'.kind = "raise" /\ log' = <<>> /\ files' = files
      ]_vars

C17_Witness ==
    /\ pc = "done" /\ call.fn = "sp500_constituent" /\ call.download
    /\ reply.kind = "response" /\ reply.content = "csv body"
    /\ files[call.filename] = "csv body"
    /\ ret = Return(PyNone, <<>>)
    /\ Len(Requests) = 1

(***************************************************************************)
(* The claims about sec_filings_data.                                      *)
(***************************************************************************)
\* the filings the provider listed
Listed == reply.json.v

\* the listed filings that carry a link, by position, in listing order
Linked == SelectSeq([i \in 1..Len(Listed) |-> i], LAMBDA i :
              /\ HasKey(Listed[i], KeyFinalLink)
              /\ DictGet(Listed[i], KeyFinalLink, PyNone) \notin {PyNone, PyStr(<<>>)})

\* the requests for filing pages, and the answers to them, in order
PageRequests == SelectSeq(log, LAMBDA e : e.op = "GET" /\ "headers" \in DOMAIN e)
PageAnswers == SelectSeq(log, LAMBDA e : e.op = "response")

\* the fetch of a page failed: no answer, or an answer with an error status
FetchFailed(page) == page.kind = "transport_error" \/ page.status >= 400

\* the filing came back as listed but for its content field
SameButContent(before, after) ==
    /\ SelectSeq(DictKeys(after), LAMBDA key : key # KeyContent)
          = SelectSeq(DictKeys(before), LAMBDA key : key # KeyContent)
    /\ \A i \in 1..Len(before.v) :
          before.v[i].k # KeyContent
              => DictGet(after, before.v[i].k, PyNone) = before.v[i].v

C20_OneRequestNoRetry ==
    (pc = "done")
        => /\ Len(Requests) <= 1
           /\ Len(Requests) = 0 => (ret.kind = "raise" /\ ret.exc = "ValueError")
           /\ reply # Idle => Len(Requests) = 1

C20_Witness ==
    /\ pc = "done"
    /\ call.fn = "earning_calendar"
    /\ reply.kind = "failed"
    /\ Len(Requests) = 1
    /\ ret = Return(PyNone, <<>>)

(***************************************************************************)
(* C21  Categorical validation precedes the network.  A call whose time    *)
(* granularity, statistics type, time delta, period, sector or industry    *)
(* fails its validator raises ValueError with no request issued and no     *)
(* file opened, written or changed.                                        *)
(***************************************************************************)
\* the call carries a categorical argument its validator rejects
ValidatorFails ==
    \/ /\ call.fn = "technical_indicators"
       /\ \/ ~validate_technical_indicators_time_delta(call.time_delta).ok
          \/ ~validate_statistics_type(call.statistics_type).ok
    \/ /\ call.fn = "historical_chart"
       /\ ~validate_time_delta(IF call.time_delta.t = "none" THEN call.timeframe
                               ELSE call.time_delta.s[1]).ok
    \/ /\ call.fn = "income_statement"
       /\ ~validate_period(call.period)
    \/ /\ call.fn = "stock_screener"
       /\ \/ Truthy(call.sector) /\ ~validate_sector(call.sector.s[1]).ok
          \/ Truthy(call.industry) /\ ~validate_industry(call.industry.s[1]).ok

C21_ValidationPrecedesNetwork ==
    [][(pc = "start" /\ pc' = "done" /\ ValidatorFails) =>
          /\ ret'.kind = "raise"
          /\ ret'.exc = "ValueError"
          /\ \A i \in 1..Len(log') : log'[i].op \notin {"GET", "open", "write"}
          /\ files' = files]_vars

\* every validator has rejected a call, the statement one on both paths
C21_Witness ==
    /\ pc = "done"
    /\ ValidatorFails
    /\ ret.kind = "raise"
    /\ call.fn = "income_statement"
    /\ call.download
    /\ files[call.filename] = "old body"

(***************************************************************************)
(* C22  stock_screener query map.  The query of the request carries the    *)
(* API key and the limit; the key of each threshold and flag argument is   *)
(* there exactly when the argument was given (is not None), with the given *)
(* value; an exchange given as a list is sent comma-joined.                *)
(***************************************************************************)
\* the key of the filter is in the query exactly when its argument was given
SentIffGiven(query, filter) ==
    LET x == call.args[filter.arg]
    IN  /\ (filter.key \in DOMAIN query) <=> (x.t # "none")
        /\ (x.t # "none") => query[filter.key] = Carried(x)

C22_ScreenerQueryMap ==
    (pc = "done" /\ call.fn = "stock_screener" /\ Requests # <<>>) =>
        LET query == Requests[1].params
        IN  /\ "apikey" \in DOMAIN query /\ query["apikey"] = API_KEY
            /\ "limit" \in DOMAIN query /\ query["limit"] = call.limit
            /\ \A n \in 1..Len(NumericFilters) : SentIffGiven(query, NumericFilters[n])
            /\ \A n \in 1..Len(BooleanFilters) : SentIffGiven(query, BooleanFilters[n])
            /\ (call.exchange.t = "list") =>
                  /\ "exchange" \in DOMAIN query
                  /\ query["exchange"] = CommaSeparated(call.exchange.v)

(***************************************************************************)
(* C23  Concurrent CSV downloads.  When two download=True calls on the     *)
(* same filename have both completed, whatever the interleaving of their   *)
(* open and write steps, the file holds the complete body of one of the    *)
(* two calls and never a mixture of the bytes of both.                     *)
(***************************************************************************)
BothCompleted == \A p \in Callers : pc[p] = "done"

C23_LastWriterWins ==
    BothCompleted =>
        \E p \in Callers : files[SharedFilename].content = reply[p].content

(***************************************************************************)
(* C24  A failed fetch surfaces as absent.  Whenever the request layer     *)
(* gives a wrapper no value, the wrapper, in every valid output mode,      *)
(* returns None: not an empty text, not an empty table, not an exception.  *)
(***************************************************************************)
C24_FailedFetchIsAbsent ==
    (/\ pc = "done"
     /\ reply.kind = "failed"
     /\ ("output" \in DOMAIN call) => call.output \in ValidOutputs) =>
        ret.kind = "return" /\ ret.value = PyNone

(***************************************************************************)
(* C25  The documentation tool's chat loop.  A request is issued while the *)
(* previous finish_reason is absent or "tool_calls"; after an answer of    *)
(* "tool_calls" the next request carries the earlier messages, then the    *)
(* assistant message, then one tool message per tool call, in order, with  *)
(* the call's id and name and its arguments echoed as content; the loop    *)
(* ends at the first other finish_reason and exactly one continuation      *)
(* request follows; the script terminates.                                 *)
(***************************************************************************)
ChatRequests == SelectSeq(log, LAMBDA e : e.op = "chat")
ChatAnswers == SelectSeq(log, LAMBDA e : e.op = "choice")

AsksForTools(k) == ChatAnswers[k].choice.finish_reason = "tool_calls"

\* requests are issued in the loop while every earlier answer asked for
\* tools, and once more after the first answer that did not
LoopOrder ==
    /\ \A k \in 2..Len(ChatRequests) : \A j \in 1..(k - 2) : AsksForTools(j)
    /\ (pc = "done" /\ ret.kind = "return") =>
          /\ Len(ChatRequests) >= 2
          /\ ~AsksForTools(Len(ChatRequests) - 1)

\* the request after the k-th answer, which asked for tools, carries the
\* earlier messages, the assistant message and a tool message per call with
\* the call's id and name, its content as Echoes(tool_call, content) has it
ToolTurnAppended(k, Echoes(_, _)) ==
    LET before == ChatRequests[k].messages
        after == ChatRequests[k + 1].messages
        message == ChatAnswers[k].choice.message
        calls == message.tool_calls
        first == Len(before) + 1
    IN  /\ Len(after) = first + Len(calls)
        /\ SubSeq(after, 1, first) = before \o <<message>>
        /\ \A i \in 1..Len(calls) :
              /\ DOMAIN after[first + i] = {"role", "tool_call_id", "name", "content"}
              /\ after[first + i].role = "tool"
              /\ after[first + i].tool_call_id = calls[i].id
              /\ after[first + i].name = calls[i].function.name
              /\ Echoes(calls[i], after[first + i].content)

\* the content is a JSON text of the arguments the model sent
ArgumentsEchoed(tool_call, content) ==
    /\ json_loads(content).ok
    /\ json_loads(content) = json_loads(tool_call.function.arguments)

\* Original statement: the content of every tool message is the call's
\* arguments.
C25_ChatLoop ==
    /\ LoopOrder
    /\ \A k \in 1..(Len(ChatRequests) - 1) :
          AsksForTools(k) => ToolTurnAppended(k, ArgumentsEchoed)

\* the arguments decoded and encoded again for the declared tool, the
\* encoded text of an error naming the tool for any other
ContentReturned(tool_call, content) ==
    content = IF tool_call.function.name = WEB_SEARCH
              THEN json_dumps(json_loads(tool_call.function.arguments).value)
              ELSE json_dumps(UnknownTool(tool_call.function.name))

\* every tool call before the one being answered had arguments that decode
ChatLoopSafety ==
    /\ LoopOrder
    /\ \A k \in 1..(Len(ChatRequests) - 1) :
          AsksForTools(k) =>
             /\ \A i \in 1..Len(ChatAnswers[k].choice.message.tool_calls) :
                   json_loads(ChatAnswers[k].choice.message.tool_calls[i]
                                 .function.arguments).ok
             /\ ToolTurnAppended(k, ContentReturned)
    /\ (pc = "done" /\ ret.kind = "raise" /\ ret.exc = "JSONDecodeError") =>
          \E i \in 1..Len(reply.message.tool_calls) :
             ~json_loads(reply.message.tool_calls[i].function.arguments).ok

\* Amended statement (see RESULTS.json): the safety part in every state,
\* and the script ends once the model stops asking for tools.
C25_ChatLoopReencodes == []ChatLoopSafety /\ <>(pc = "done")

\* two tool turns, one of them with a call of the declared tool followed by
\* a call of another name, then the final answer and the continuation
C25_Witness ==
    /\ pc = "done"
    /\ call.fn = "doc2json"
    /\ ret.kind = "return"
    /\ Len(ChatRequests) = 4
    /\ \E k \in 1..2 :
          LET calls == ChatAnswers[k].choice.message.tool_calls
          IN  /\ Len(calls) = 2
              /\ calls[1].function.name = WEB_SEARCH
              /\ calls[1].function.arguments = CompactArguments
              /\ calls[2].function.name # WEB_SEARCH

(***************************************************************************)
(* C26  The documentation tool's message history is complete.  The         *)
(* messages sent with a chat request hold, in order, every assistant       *)
(* message received before it; so the continuation request holds the       *)
(* model's final answer ahead of the "continue" user message.              *)
(***************************************************************************)
AssistantMessages(messages) == SelectSeq(messages, LAMBDA m : m.role = "assistant")

C26_HistoryComplete ==
    \A k \in 1..Len(ChatRequests) :
       AssistantMessages(ChatRequests[k].messages)
          = [j \in 1..(k - 1) |-> ChatAnswers[j].choice.message]

(***************************************************************************)
(* C27  insider_trading sends the filter it was given.  Whenever the call  *)
(* passes the exactly-one check and issues its request, the query holds    *)
(* exactly one of symbol, reportingCik and companyCik: the key of the      *)
(* argument that was given, with its value, 0 and "" included.             *)
(***************************************************************************)
\* the query keys of the identifying arguments
IdentifierKeys ==
    [symbol |-> "symbol", reporting_cik |-> "reportingCik", company_cik |-> "companyCik"]

\* the query value an identifying argument is sent as
IdentifierValue(x) == IF x.t = "str" THEN x.s ELSE x.m

C27_QueryHoldsTheIdentifier ==
    (pc = "done" /\ call.fn = "insider_trading" /\ IdentifiersSet = 1 /\ Requests # <<>>) =>
        LET query == Requests[1].params
            given == CHOOSE x \in DOMAIN IdentifierKeys : call[x] # PyNone
        IN  /\ DOMAIN query \cap {IdentifierKeys[x] : x \in DOMAIN IdentifierKeys}
                 = {IdentifierKeys[given]}
            /\ query[IdentifierKeys[given]] = IdentifierValue(call[given])

(***************************************************************************)
(* C28  earning_calendar never fails on provider data.  For every          *)
(* collection the provider returns, records lacking an estimate or         *)
(* carrying it as null included, and every estimate_required and           *)
(* revenue_minimum, the call returns, without raising, the records that    *)
(* pass the active filters.                                                *)
(***************************************************************************)
\* the revenue estimate the floor is compared with: 0 when there is none
RevenueOrZero(entry) ==
    LET revenue == DictGet(entry, KeyRevenueEstimated, PyInt(0))
    IN  IF revenue = PyNone THEN PyInt(0) ELSE revenue

\* the record passes the filters the call has switched on
PassesActiveFilters(entry) ==
    /\ call.estimate_required =>
          /\ DictGet(entry, KeyEpsEstimated, PyNone) # PyNone
          /\ DictGet(entry, KeyRevenueEstimated, PyNone) # PyNone
    /\ ~LessThan(RevenueOrZero(entry), call.revenue_minimum)

C28_NeverFailsOnProviderData ==
    (/\ pc = "done" /\ call.fn = "earning_calendar"
     /\ reply.kind = "json" /\ call.output \in ValidOutputs)
        => /\ ret.kind = "return"
           /\ ret.value = Rendered(SelectSeq(reply.json.v, PassesActiveFilters),
                                   call.output, EarningFields)

(***************************************************************************)
(* C29  The API key stays with the provider.  In sec_filings_data the key  *)
(* is sent on the filing-list request only: no request for a filing's      *)
(* finalLink carries it in its query parameters or its headers, whose      *)
(* only entry is the SEC user agent.                                       *)
(***************************************************************************)
\* the map sends the key as its apikey entry
CarriesApiKey(map) == "apikey" \in DOMAIN map /\ map["apikey"] = API_KEY

C29_ApiKeyConfined ==
    \A i \in 1..Len(log) :
       log[i].op = "GET" =>
          IF i = 1
          THEN /\ log[i].url = <<BASE_URL_v3, "sec_filings/", call.symbol>>
               /\ CarriesApiKey(log[i].params)
          ELSE /\ "params" \notin DOMAIN log[i]
               /\ DOMAIN log[i].headers = {"User-Agent"}
               /\ log[i].headers["User-Agent"] = SEC_USER_AGENT
               /\ log[i].headers["User-Agent"] # API_KEY
               /\ API_KEY \notin Range(log[i].url.s)

\* two filings were requested, after the listing request with the key
C29_Witness ==
    /\ pc = "done"
    /\ call.fn = "sec_filings_data"
    /\ Len(PageRequests) = 2
    /\ CarriesApiKey(log[1].params)

(***************************************************************************)
(* C30  The file frame of the download path.  In a download=True call the  *)
(* GET completes before the file is opened: after a transport error the    *)
(* file is neither created nor truncated and keeps its content; when the   *)
(* GET returns, the body is written whatever the status, and the file      *)
(* then holds exactly that body.                                           *)
(***************************************************************************)
\* a call with download=True runs from its start to its end
DownloadCall == pc = "start" /\ pc' = "done" /\ "download" \in DOMAIN call /\ call.download

\* no file is opened before the request has been made
GetBeforeOpen(events) ==
    \A i \in 1..Len(events) :
       events[i].op = "open" => \E j \in 1..(i - 1) : events[j].op = "GET"

\* the transport failed: no file operation, the files as they were
TransportErrorKeepsFile ==
    reply'.kind = "transport_error" => (FileOperations' = <<>> /\ files' = files)

\* the body was written and is what the file holds
BodyWritten ==
    /\ FileOperations' = <<Open(call.filename), Write(call.filename, reply'.content)>>
    /\ files' = With(files, call.filename, reply'.content)

\* Original statement: whenever the GET returns, the body is written.
C30_DownloadFileFrame ==
    [][DownloadCall =>
          /\ GetBeforeOpen(log')
          /\ TransportErrorKeepsFile
          /\ reply'.kind = "response" => BodyWritten]_vars

\* Amended statement (see RESULTS.json): the body is written when the file
\* can be opened; when it cannot, the call raises after its request, writes
\* nothing and leaves the file as it was.
C30_DownloadFileFrameWritable ==
    [][DownloadCall =>
          /\ GetBeforeOpen(log')
          /\ TransportErrorKeepsFile
          /\ reply'.kind = "response" =>
                IF files[call.filename] # "unwritable"
                THEN BodyWritten /\ ret' = Return(PyNone, <<>>)
                ELSE /\ ret'.kind = "raise"
                     /\ FileOperations' = <<Open(call.filename)>>
                     /\ files' = files]_vars

\* the body of an answer with an error status was written to the file
C30_Witness ==
    /\ pc = "done"
    /\ "download" \in DOMAIN call /\ call.download
    /\ reply.kind = "response" /\ reply.status = 401
    /\ FileOperations = <<Open(call.filename), Write(call.filename, reply.content)>>
    /\ files[call.filename] = reply.content

============================================================================
